---- MODULE Spec2Model ----
(***************************************************************************)
(* State-machine model of the PayLater EMI contracts                        *)
(* (src/project/contracts/EMIContract.sol): EMIContract (a loan),           *)
(* UserProfile (credit profiles), LiquidityPool and the PYUSD token they    *)
(* move, and EMIManager (eligibility and loan creation).  Transaction       *)
(* hashes and UserProfile's per-user payment log, which no operation reads  *)
(* back, are left out; of the events, LateFeeApplied is kept.               *)
(*                                                                          *)
(* Units.  Amounts are token units.  MIN_LIQUIDITY, 1000 * 10**6 in the     *)
(* source, is scaled to 1000 so that the amounts stay small; the constant   *)
(* is only the threshold of addLiquidity.  block.timestamp is counted in    *)
(* days, so `3 days` is 3, `30 days` is 30 and `365 days` is 365.           *)
(*                                                                          *)
(* A transaction that reverts leaves the chain state as it was.  Every      *)
(* action is one external call: when all its `require`s pass it commits     *)
(* its effect, otherwise it reverts; `last` records the call and whether    *)
(* it succeeded, so that a failed call is a visible step of the model.      *)
(***************************************************************************)
EXTENDS Integers, Sequences, FiniteSets

(***************************************************************************)
(* Bounds of the model                                                      *)
(***************************************************************************)
MaxTicks == 1
UserFunds == 1030
ProviderFunds == 1000
MaxEarly == 1
MaxDirect == 3
MaxPlans == 6
\* EMIPlatform loans created
MaxPlatformLoans == 2
\* what a buyer holds of each token
BuyerFunds == 12

(***************************************************************************)
(* Program constants                                                        *)
(***************************************************************************)
LATE_FEE_PERCENTAGE == 500
GRACE_PERIOD == 3
InstallmentPeriod == 30
INITIAL_CREDIT_SCORE == 650
MAX_CREDIT_SCORE == 850
MIN_CREDIT_SCORE == 300
INTEREST_RATE == 800
MIN_LIQUIDITY == 1000
YearLength == 365
\* EMIManager's MIN_CREDIT_SCORE (UserProfile's is the one above)
BASE_INTEREST_RATE == 1200

EMIManager_MIN_CREDIT_SCORE == 600
MIN_DEPOSIT_PERCENTAGE == 500
MAX_DEPOSIT_PERCENTAGE == 5000

\* EMIPlatform.INTERVAL, in days
INTERVAL == 5

\* type(uint8).max
MaxUint8 == 255

(***************************************************************************)
(* Addresses                                                                *)
(***************************************************************************)
\* the loans deployed by an account
LoanIds == {"L1"}
\* the loans EMIManager creates, in the order of their creation
PlanNames == <<"E1", "E2", "E3", "E4", "E5", "E6", "E7", "E8">>
PlanIds == {PlanNames[i] : i \in 1..MaxPlans}
\* a second loan deployed by an account, for the same borrower
OtherLoanIds == {"L2"}
BothLoans == LoanIds \cup OtherLoanIds
Contracts == BothLoans \cup PlanIds
Users == {"u1"}
Providers == {"p1"}
\* every account that may provide liquidity; the second one acts in the pool
\* of several providers only
PoolProviders == Providers \cup {"p2"}
Merchant == "m1"
Owner == "owner"
\* an externally owned account: it deploys loans (and is then their
\* emiManager) and the owner may authorize it in UserProfile and LiquidityPool
Agent == "agent"
PoolAddr == "pool"
ProfileAddr == "profile"
ManagerAddr == "manager"
Addresses == Contracts \cup Users \cup PoolProviders \cup {Merchant, Owner, Agent, PoolAddr}

\* EMIPlatform: its own address, the tokens loans are made in, buyers and
\* sellers, address(0)
PlatformAddr == "platform"
Tokens == {"PYUSD", "USDT"}
Buyers == {"u1"}
Sellers == {"m1", "m2"}
ZeroAddress == ""
PlatformAccounts == Buyers \cup Sellers \cup {PlatformAddr}

VARIABLES
    now,                    \* block.timestamp, in days
    balance,                \* PYUSD balances
    loans,                  \* the deployed EMIContracts
    userProfiles,           \* UserProfile.userProfiles
    authorizedContracts,    \* UserProfile.authorizedContracts
    poolStats,              \* LiquidityPool.poolStats
    liquidityProviders,     \* LiquidityPool.liquidityProviders
    authorizedEMIContracts, \* LiquidityPool.authorizedEMIContracts
    authorizedMerchants,    \* EMIManager.authorizedMerchants
    ticks,                  \* number of clock steps taken
    direct,                 \* number of profile calls made directly by accounts
    last                    \* the last external call and its outcome

\* EMIPlatform and the tokens it moves
VARIABLES
    nextLoanId,             \* EMIPlatform.nextLoanId
    platformLoans,          \* EMIPlatform.loans
    sellerBalances,         \* EMIPlatform.sellerBalances
    tokenBalances,          \* balances in each ERC20 token EMIPlatform is used with
    withdrawn               \* the amounts of the SellerWithdraw events, summed

platform == <<nextLoanId, platformLoans, sellerBalances, tokenBalances, withdrawn>>

vars == <<now, balance, loans, userProfiles, authorizedContracts, poolStats,
          liquidityProviders, authorizedEMIContracts, authorizedMerchants, ticks, direct,
          platform, last>>

chain == <<now, balance, loans, userProfiles, authorizedContracts, poolStats,
           liquidityProviders, authorizedEMIContracts, authorizedMerchants, ticks, direct,
           platform>>

(***************************************************************************)
(* Calls                                                                    *)
(***************************************************************************)
\* a call and its outcome; `events` are the events it emitted that the model
\* keeps, `sender` is msg.sender where a function's modifier tests it and the
\* model lets more than one account call ("" elsewhere), `args` are the
\* arguments of a view whose result is in `arg` (<<>> elsewhere)
CallEmitting(op, target, arg, ok, events) ==
    [op |-> op, target |-> target, arg |-> arg, ok |-> ok, events |-> events,
     sender |-> "", args |-> <<>>]

Call(op, target, arg, ok) == CallEmitting(op, target, arg, ok, <<>>)

\* the call reverted: nothing but the record of the call changes
Reverted(op, target, arg) ==
    /\ last' = Call(op, target, arg, FALSE)
    /\ UNCHANGED chain

Done(op, target, arg) == last' = Call(op, target, arg, TRUE)

DoneEmitting(op, target, arg, events) == last' = CallEmitting(op, target, arg, TRUE, events)

CallFrom(sender, op, target, arg, ok) == [Call(op, target, arg, ok) EXCEPT !.sender = sender]

RevertedFrom(sender, op, target, arg) ==
    /\ last' = CallFrom(sender, op, target, arg, FALSE)
    /\ UNCHANGED chain

DoneFrom(sender, op, target, arg) == last' = CallFrom(sender, op, target, arg, TRUE)

\* a pure or view function returning `result` for the arguments `args`
Returned(op, target, args, result) ==
    /\ last' = [Call(op, target, result, TRUE) EXCEPT !.args = args]
    /\ UNCHANGED chain

(***************************************************************************)
(* PYUSD (IERC20): transfer / transferFrom move `amount` when the sender    *)
(* holds it; allowances are taken as granted.                               *)
(***************************************************************************)
CanPay(bal, from, amount) == bal[from] >= amount

Pay(bal, from, to, amount) ==
    [[bal EXCEPT ![from] = @ - amount] EXCEPT ![to] = @ + amount]

(***************************************************************************)
(* LiquidityPool                                                            *)
(***************************************************************************)
NoProvider == [amount |-> 0, timestamp |-> 0, interestEarned |-> 0, isActive |-> FALSE]

NoStats == [totalLiquidity |-> 0, availableLiquidity |-> 0, lockedLiquidity |-> 0,
            totalEMIsFinanced |-> 0, totalInterestEarned |-> 0]

\* calculatePendingInterest, of provider record pr at time t
calculatePendingInterest(pr, t) ==
    IF ~pr.isActive \/ pr.amount = 0
    THEN 0
    ELSE LET timeElapsed == t - pr.timestamp
             annualInterest == (pr.amount * INTEREST_RATE) \div 10000
         IN  (annualInterest * timeElapsed) \div YearLength

\* authorizeEMIContract (onlyOwner)
authorizeEMIContract(a, authorized) ==
    /\ authorizedEMIContracts' =
          IF authorized THEN authorizedEMIContracts \cup {a}
                        ELSE authorizedEMIContracts \ {a}
    /\ Done("authorizeEMIContract", a, IF authorized THEN 1 ELSE 0)
    /\ UNCHANGED <<now, balance, loans, userProfiles,
                   authorizedContracts, poolStats, liquidityProviders, ticks, direct,
                   authorizedMerchants, platform>>

\* addLiquidity refusing the minimum itself
addLiquidityOkAboveMin(p, amount) ==
    /\ amount > MIN_LIQUIDITY
    /\ CanPay(balance, p, amount)

addLiquidityOk(p, amount) ==
    /\ amount >= MIN_LIQUIDITY
    /\ CanPay(balance, p, amount)

addLiquidity(p, amount) ==
    IF addLiquidityOk(p, amount)
    THEN LET pr == liquidityProviders[p]
             pendingInterest == IF pr.isActive THEN calculatePendingInterest(pr, now) ELSE 0
         IN  /\ balance' = Pay(balance, p, PoolAddr, amount)
             /\ liquidityProviders' = [liquidityProviders EXCEPT ![p] =
                    [amount |-> pr.amount + amount,
                     timestamp |-> now,
                     interestEarned |-> pr.interestEarned + pendingInterest,
                     isActive |-> TRUE]]
             /\ poolStats' = [poolStats EXCEPT
                    !.totalLiquidity = @ + amount,
                    !.availableLiquidity = @ + amount]
             /\ Done("addLiquidity", p, amount)
             /\ UNCHANGED <<now, loans, userProfiles,
                            authorizedContracts, authorizedEMIContracts, ticks, direct,
                            authorizedMerchants, platform>>
    ELSE Reverted("addLiquidity", p, amount)

\* removeLiquidity paying out without the interest pending since the
\* provider's timestamp
removeLiquidityWithdrawalStored(p, amount) ==
    amount + liquidityProviders[p].interestEarned

\* what removeLiquidity pays out: the amount and all the interest earned
removeLiquidityWithdrawal(p, amount) ==
    amount + liquidityProviders[p].interestEarned
           + calculatePendingInterest(liquidityProviders[p], now)

\* removeLiquidity going on whatever the token transfer returns
removeLiquidityOkUnpaid(p, amount) ==
    /\ liquidityProviders[p].isActive
    /\ liquidityProviders[p].amount >= amount
    /\ poolStats.availableLiquidity >= amount

removeLiquidityOk(p, amount) ==
    /\ liquidityProviders[p].isActive
    /\ liquidityProviders[p].amount >= amount
    /\ poolStats.availableLiquidity >= amount
    /\ CanPay(balance, PoolAddr, removeLiquidityWithdrawal(p, amount))

\* removeLiquidity leaving the provider active whatever remains
removeLiquidityActiveKept(remaining) == TRUE

\* removeLiquidity: the provider stays active unless nothing remains
removeLiquidityActive(remaining) == remaining # 0

removeLiquidity(p, amount) ==
    IF removeLiquidityOk(p, amount)
    THEN LET pr == liquidityProviders[p]
         IN  /\ liquidityProviders' = [liquidityProviders EXCEPT ![p] =
                    [amount |-> pr.amount - amount,
                     timestamp |-> now,
                     interestEarned |-> 0,
                     isActive |-> removeLiquidityActive(pr.amount - amount)]]
             /\ poolStats' = [poolStats EXCEPT
                    !.totalLiquidity = @ - amount,
                    !.availableLiquidity = @ - amount]
             /\ balance' = Pay(balance, PoolAddr, p, removeLiquidityWithdrawal(p, amount))
             /\ Done("removeLiquidity", p, amount)
             /\ UNCHANGED <<now, loans, userProfiles,
                            authorizedContracts, authorizedEMIContracts, ticks, direct,
                            authorizedMerchants, platform>>
    ELSE Reverted("removeLiquidity", p, amount)

\* transferToMerchant refusing a transfer of all the available liquidity
transferToMerchantOkStrict(caller, stats, bal, amount) ==
    /\ caller \in authorizedEMIContracts
    /\ stats.availableLiquidity > amount
    /\ bal[PoolAddr] >= amount

\* transferToMerchant: the `require`s, for a caller, the pool's counters and
\* the token balances at the time of the call
transferToMerchantOk(caller, stats, bal, amount) ==
    /\ caller \in authorizedEMIContracts
    /\ stats.availableLiquidity >= amount
    /\ CanPay(bal, PoolAddr, amount)

\* transferToMerchant: the pool's counters after the call
transferToMerchantStats(stats, amount) ==
    [stats EXCEPT !.availableLiquidity = @ - amount,
                  !.lockedLiquidity = @ + amount,
                  !.totalEMIsFinanced = @ + 1]

\* transferToMerchant called directly by an authorized account
transferToMerchant(caller, amount) ==
    IF transferToMerchantOk(caller, poolStats, balance, amount)
    THEN /\ poolStats' = transferToMerchantStats(poolStats, amount)
         /\ balance' = Pay(balance, PoolAddr, Merchant, amount)
         /\ Done("transferToMerchant", caller, amount)
         /\ UNCHANGED <<now, loans, userProfiles, authorizedContracts,
                        liquidityProviders, authorizedEMIContracts, ticks, direct,
                        authorizedMerchants, platform>>
    ELSE Reverted("transferToMerchant", caller, amount)

\* receiveEMIPayment: uint256 subtraction reverts on underflow
receiveEMIPaymentOk(caller, amount) ==
    /\ caller \in authorizedEMIContracts
    /\ poolStats.lockedLiquidity >= amount

receiveEMIPayment(caller, amount) ==
    IF receiveEMIPaymentOk(caller, amount)
    THEN /\ poolStats' = [poolStats EXCEPT
                !.lockedLiquidity = @ - amount,
                !.availableLiquidity = @ + amount,
                !.totalInterestEarned = @ + (amount \div 100)]
         /\ Done("receiveEMIPayment", caller, amount)
         /\ UNCHANGED <<now, balance, loans, userProfiles,
                        authorizedContracts, liquidityProviders, authorizedEMIContracts, ticks, direct,
                        authorizedMerchants, platform>>
    ELSE Reverted("receiveEMIPayment", caller, amount)

\* calculateAPY, of the pool's counters, in basis points
calculateAPY(stats) ==
    IF stats.totalLiquidity = 0
    THEN 0
    ELSE LET utilizationRate == (stats.lockedLiquidity * 10000) \div stats.totalLiquidity
             utilizationBonus == (utilizationRate * 200) \div 10000
         IN  INTEREST_RATE + utilizationBonus

claimInterestTotal(p) ==
    liquidityProviders[p].interestEarned
        + calculatePendingInterest(liquidityProviders[p], now)

claimInterestOk(p) ==
    /\ liquidityProviders[p].isActive
    /\ claimInterestTotal(p) > 0
    /\ poolStats.availableLiquidity >= claimInterestTotal(p)
    /\ CanPay(balance, PoolAddr, claimInterestTotal(p))

\* claimInterest: the pool's counters after the call
claimInterestStats(stats, totalInterest) ==
    [stats EXCEPT !.availableLiquidity = @ - totalInterest]

claimInterest(p) ==
    IF claimInterestOk(p)
    THEN /\ liquidityProviders' = [liquidityProviders EXCEPT ![p] =
                [@ EXCEPT !.interestEarned = 0, !.timestamp = now]]
         /\ poolStats' = claimInterestStats(poolStats, claimInterestTotal(p))
         /\ balance' = Pay(balance, PoolAddr, p, claimInterestTotal(p))
         /\ Done("claimInterest", p, claimInterestTotal(p))
         /\ UNCHANGED <<now, loans, userProfiles,
                        authorizedContracts, authorizedEMIContracts, ticks, direct,
                        authorizedMerchants, platform>>
    ELSE Reverted("claimInterest", p, 0)

\* emergencyWithdraw (onlyOwner): moves tokens, leaves the counters alone
emergencyWithdrawOk(amount) ==
    /\ amount <= poolStats.availableLiquidity
    /\ CanPay(balance, PoolAddr, amount)

emergencyWithdraw(amount) ==
    IF emergencyWithdrawOk(amount)
    THEN /\ balance' = Pay(balance, PoolAddr, Owner, amount)
         /\ Done("emergencyWithdraw", Owner, amount)
         /\ UNCHANGED <<now, loans, userProfiles, authorizedContracts,
                        poolStats, liquidityProviders, authorizedEMIContracts, ticks, direct,
                        authorizedMerchants, platform>>
    ELSE Reverted("emergencyWithdraw", Owner, amount)

(***************************************************************************)
(* UserProfile                                                              *)
(***************************************************************************)
NoProfile == [totalEMIs |-> 0, activeEMIs |-> 0, completedEMIs |-> 0, defaultedEMIs |-> 0,
              creditScore |-> 0, totalAmountFinanced |-> 0, onTimePaymentRate |-> 0,
              joinDate |-> 0, isVerified |-> FALSE]

\* the Profile createProfile stores at time t
NewProfile(t) == [totalEMIs |-> 0, activeEMIs |-> 0, completedEMIs |-> 0, defaultedEMIs |-> 0,
                  creditScore |-> INITIAL_CREDIT_SCORE, totalAmountFinanced |-> 0,
                  onTimePaymentRate |-> 10000, joinDate |-> t, isVerified |-> FALSE]

\* getUserProfile: the stored record, all zero for a user without a profile
getUserProfile(u) == userProfiles[u]

\* _updateCreditScore
UpdateCreditScore(pf, newScore) ==
    [pf EXCEPT !.creditScore =
        IF newScore > MAX_CREDIT_SCORE THEN MAX_CREDIT_SCORE
        ELSE IF newScore < MIN_CREDIT_SCORE THEN MIN_CREDIT_SCORE
        ELSE newScore]

\* _updateCreditScoreForPayment
UpdateCreditScoreForPayment(pf, paymentType, onTime) ==
    IF paymentType = "Installment"
    THEN IF onTime
         THEN IF pf.creditScore < MAX_CREDIT_SCORE
              THEN UpdateCreditScore(pf, pf.creditScore + 2)
              ELSE pf
         ELSE UpdateCreditScore(pf, IF pf.creditScore > 10 THEN pf.creditScore - 10
                                                           ELSE MIN_CREDIT_SCORE)
    ELSE IF paymentType = "EarlyPayment"
         THEN IF pf.creditScore < MAX_CREDIT_SCORE
              THEN UpdateCreditScore(pf, pf.creditScore + 5)
              ELSE pf
         ELSE pf

\* recordPayment: onlyAuthorizedContract; every payment is recorded as on time
recordPaymentOk(caller) == caller \in authorizedContracts

\* recordPayment computing the new score from the initial score instead of
\* the stored one
recordPaymentProfileStale(pf, paymentType) ==
    UpdateCreditScoreForPayment([pf EXCEPT !.creditScore = INITIAL_CREDIT_SCORE],
                                paymentType, TRUE)

recordPaymentProfile(pf, paymentType) == UpdateCreditScoreForPayment(pf, paymentType, TRUE)

\* createProfile
createProfileOk(caller, pf) ==
    /\ caller \in authorizedContracts
    /\ pf.joinDate = 0

\* addEMI: creates a missing profile by an external call to createProfile,
\* whose msg.sender is the UserProfile contract itself
addEMIOk(caller, pf) ==
    /\ caller \in authorizedContracts
    /\ pf.joinDate = 0 => createProfileOk(ProfileAddr, pf)

addEMIProfile(pf, t) ==
    LET profile == IF pf.joinDate = 0 THEN NewProfile(t) ELSE pf
    IN  [profile EXCEPT !.totalEMIs = @ + 1, !.activeEMIs = @ + 1]

\* completeEMI
completeEMIOk(caller, pf) ==
    /\ caller \in authorizedContracts
    /\ pf.activeEMIs > 0

\* completeEMI counting the completion without releasing the active loan
completeEMIProfileKeepActive(pf) ==
    UpdateCreditScore([pf EXCEPT !.completedEMIs = @ + 1], pf.creditScore + 10)

completeEMIProfile(pf) ==
    UpdateCreditScore([pf EXCEPT !.activeEMIs = @ - 1, !.completedEMIs = @ + 1],
                      pf.creditScore + 10)

\* recordDefault
recordDefaultOk(caller, pf) ==
    /\ caller \in authorizedContracts
    /\ pf.activeEMIs > 0

recordDefaultProfile(pf) ==
    UpdateCreditScore([pf EXCEPT !.activeEMIs = @ - 1, !.defaultedEMIs = @ + 1],
                      IF pf.creditScore > 100 THEN pf.creditScore - 100 ELSE MIN_CREDIT_SCORE)

\* recordLatePayment
recordLatePaymentProfile(pf) ==
    UpdateCreditScore(pf, IF pf.creditScore > 5 THEN pf.creditScore - 5 ELSE MIN_CREDIT_SCORE)

ProfileUnchanged ==
    /\ direct' = direct + 1
    /\ UNCHANGED <<now, balance, loans, authorizedContracts, poolStats,
                   liquidityProviders, authorizedEMIContracts, ticks, authorizedMerchants, platform>>

\* authorizeContract (onlyOwner)
authorizeContract(a, authorized) ==
    /\ authorizedContracts' =
          IF authorized THEN authorizedContracts \cup {a} ELSE authorizedContracts \ {a}
    /\ Done("authorizeContract", a, IF authorized THEN 1 ELSE 0)
    /\ UNCHANGED <<now, balance, loans, userProfiles, poolStats, liquidityProviders,
                   authorizedEMIContracts, ticks, direct, authorizedMerchants, platform>>

\* the profile operations called directly by an account
createProfile(caller, u) ==
    IF createProfileOk(caller, userProfiles[u])
    THEN /\ userProfiles' = [userProfiles EXCEPT ![u] = NewProfile(now)]
         /\ Done("createProfile", u, 0)
         /\ ProfileUnchanged
    ELSE Reverted("createProfile", u, 0)

addEMI(caller, u) ==
    IF addEMIOk(caller, userProfiles[u])
    THEN /\ userProfiles' = [userProfiles EXCEPT ![u] = addEMIProfile(@, now)]
         /\ Done("addEMI", u, 0)
         /\ ProfileUnchanged
    ELSE Reverted("addEMI", u, 0)

recordPayment(caller, u, paymentType) ==
    IF recordPaymentOk(caller)
    THEN /\ userProfiles' = [userProfiles EXCEPT ![u] = recordPaymentProfile(@, paymentType)]
         /\ Done("recordPayment", u, 0)
         /\ ProfileUnchanged
    ELSE Reverted("recordPayment", u, 0)

completeEMI(caller, u) ==
    IF completeEMIOk(caller, userProfiles[u])
    THEN /\ userProfiles' = [userProfiles EXCEPT ![u] = completeEMIProfile(@)]
         /\ Done("completeEMI", u, 0)
         /\ ProfileUnchanged
    ELSE Reverted("completeEMI", u, 0)

recordDefault(caller, u) ==
    IF recordDefaultOk(caller, userProfiles[u])
    THEN /\ userProfiles' = [userProfiles EXCEPT ![u] = recordDefaultProfile(@)]
         /\ Done("recordDefault", u, 0)
         /\ ProfileUnchanged
    ELSE Reverted("recordDefault", u, 0)

recordLatePayment(caller, u) ==
    IF caller \in authorizedContracts
    THEN /\ userProfiles' = [userProfiles EXCEPT ![u] = recordLatePaymentProfile(@)]
         /\ Done("recordLatePayment", u, 0)
         /\ ProfileUnchanged
    ELSE Reverted("recordLatePayment", u, 0)

\* updateCreditScore (onlyOwner)
updateCreditScore(u, newScore) ==
    /\ userProfiles' = [userProfiles EXCEPT ![u] = UpdateCreditScore(@, newScore)]
    /\ Done("updateCreditScore", u, newScore)
    /\ ProfileUnchanged

(***************************************************************************)
(* EMIContract                                                              *)
(***************************************************************************)
NoLoan == [deployed |-> FALSE, user |-> "", emiManager |-> "", totalAmount |-> 0,
           termMonths |-> 0, interestRate |-> 0, depositAmount |-> 0, monthlyAmount |-> 0,
           remainingAmount |-> 0, depositPaid |-> FALSE, nextPaymentDate |-> 0,
           paymentsCompleted |-> 0, status |-> "Created", paused |-> FALSE,
           installments |-> <<>>, paymentHistory |-> <<>>]

\* constructor: the interest on the principal left after the deposit
TotalInterest(principalAmount, interestRate, termMonths) ==
    (principalAmount * interestRate * termMonths) \div (10000 * 12)

\* constructor: principal after deposit plus interest
TotalWithInterest(totalAmount, depositAmount, interestRate, termMonths) ==
    (totalAmount - depositAmount)
        + TotalInterest(totalAmount - depositAmount, interestRate, termMonths)

\* _generateInstallmentSchedule, at time startDate
GenerateInstallmentSchedule(termMonths, monthlyAmount, startDate) ==
    [i \in 1..termMonths |->
        [installmentNumber |-> i,
         dueDate |-> startDate + (i * InstallmentPeriod),
         amount |-> monthlyAmount,
         status |-> "Pending",
         paidDate |-> 0]]

\* constructor: the subtraction and the division revert on underflow and on 0
ConstructorOk(totalAmount, termMonths, depositAmount) ==
    /\ depositAmount <= totalAmount
    /\ termMonths # 0

Constructor(user, deployer, totalAmount, termMonths, interestRate, depositAmount, t) ==
    LET totalWithInterest ==
            TotalWithInterest(totalAmount, depositAmount, interestRate, termMonths)
        monthlyAmount == totalWithInterest \div termMonths
        schedule == GenerateInstallmentSchedule(termMonths, monthlyAmount, t)
    IN  [deployed |-> TRUE, user |-> user, emiManager |-> deployer,
         totalAmount |-> totalAmount, termMonths |-> termMonths,
         interestRate |-> interestRate, depositAmount |-> depositAmount,
         monthlyAmount |-> monthlyAmount, remainingAmount |-> totalWithInterest,
         depositPaid |-> FALSE,
         nextPaymentDate |-> IF Len(schedule) > 0 THEN schedule[1].dueDate ELSE 0,
         paymentsCompleted |-> 0, status |-> "Created", paused |-> FALSE,
         installments |-> schedule, paymentHistory |-> <<>>]

LoanUnchanged == UNCHANGED <<now, balance, userProfiles, authorizedContracts, poolStats,
                             liquidityProviders, authorizedEMIContracts, ticks, direct,
                             authorizedMerchants, platform>>

\* new EMIContract(...) by an account, which becomes its emiManager
deployEMI(l, deployer, u, totalAmount, termMonths, interestRate, depositAmount) ==
    IF ConstructorOk(totalAmount, termMonths, depositAmount)
    THEN /\ loans' = [loans EXCEPT ![l] =
                Constructor(u, deployer, totalAmount, termMonths, interestRate,
                            depositAmount, now)]
         /\ Done("deployEMI", l, totalAmount)
         /\ LoanUnchanged
    ELSE Reverted("deployEMI", l, totalAmount)

\* processDeposit paying the merchant the principal less the deposit
MerchantPayoutLessDeposit(e) == e.totalAmount - e.depositAmount

\* processDeposit: the amount the pool is told to pay the merchant
MerchantPayout(e) == e.totalAmount

\* processDeposit going on without the pool's transfer
processDepositOkUnfunded(l) ==
    /\ ~loans[l].paused
    /\ ~loans[l].depositPaid
    /\ loans[l].status = "Created"
    /\ balance[loans[l].user] >= loans[l].depositAmount
    /\ l \in authorizedContracts

\* modifier whenNotPaused, without its test
whenNotPausedSkipped(e) == TRUE

\* modifier whenNotPaused
whenNotPaused(e) == ~e.paused

\* processDeposit without its two requires on depositPaid and status
processDepositOkRepeatable(l) ==
    LET e == loans[l]
    IN  /\ whenNotPaused(e)
        /\ CanPay(balance, e.user, e.depositAmount)
        /\ transferToMerchantOk(l, poolStats,
                                Pay(balance, e.user, l, e.depositAmount), MerchantPayout(e))
        /\ recordPaymentOk(l)

processDepositOk(l) ==
    LET e == loans[l]
    IN  /\ whenNotPaused(e)
        /\ ~e.depositPaid
        /\ e.status = "Created"
        /\ CanPay(balance, e.user, e.depositAmount)
        /\ transferToMerchantOk(l, poolStats,
                                Pay(balance, e.user, l, e.depositAmount), MerchantPayout(e))
        /\ recordPaymentOk(l)

processDeposit(l) ==
    LET e == loans[l]
    IN  IF processDepositOk(l)
        THEN /\ balance' = Pay(Pay(balance, e.user, l, e.depositAmount),
                               PoolAddr, Merchant, MerchantPayout(e))
             /\ poolStats' = transferToMerchantStats(poolStats, MerchantPayout(e))
             /\ loans' = [loans EXCEPT ![l] =
                    [e EXCEPT !.depositPaid = TRUE,
                              !.status = "Active",
                              !.paymentHistory = Append(@,
                                  [amount |-> e.depositAmount, timestamp |-> now,
                                   paymentType |-> "Deposit"])]]
             /\ userProfiles' = [userProfiles EXCEPT ![e.user] =
                    recordPaymentProfile(@, "Deposit")]
             /\ Done("processDeposit", l, e.depositAmount)
             /\ UNCHANGED <<now, authorizedContracts, liquidityProviders,
                            authorizedEMIContracts, ticks, direct, authorizedMerchants, platform>>
        ELSE Reverted("processDeposit", l, e.depositAmount)

\* processInstallmentPayment without the check of the order
InstallmentNumberInRange(e, installmentNumber) ==
    installmentNumber > 0 /\ installmentNumber <= e.termMonths

\* processInstallmentPayment: the checks on the installment number
InstallmentNumberOk(e, installmentNumber) ==
    /\ installmentNumber > 0 /\ installmentNumber <= e.termMonths
    /\ installmentNumber = e.paymentsCompleted + 1

\* an installment counted as late from the last moment of the grace period
IsLateAtGraceEnd(inst, t) == t >= inst.dueDate + GRACE_PERIOD

\* processInstallmentPayment: the installment is paid after its grace period
IsLate(inst, t) == t > inst.dueDate + GRACE_PERIOD

\* the late fee charged on an installment paid at time t
LateFee(inst, t) ==
    IF IsLate(inst, t)
    THEN (inst.amount * LATE_FEE_PERCENTAGE) \div 10000
    ELSE 0

\* the amount an installment costs at time t
PaymentAmount(inst, t) == inst.amount + LateFee(inst, t)

\* the LateFeeApplied events processInstallmentPayment emits at time t
LateFeeApplied(user, inst, t) ==
    IF IsLate(inst, t)
    THEN <<[event |-> "LateFeeApplied", user |-> user,
            installmentNumber |-> inst.installmentNumber, lateFee |-> LateFee(inst, t)]>>
    ELSE <<>>

\* an installment that leaves remainingAmount as it was
RemainingKept(remainingAmount, amount) == remainingAmount

\* remainingAmount after an installment of `amount` is paid
RemainingAfterInstallment(remainingAmount, amount) == remainingAmount - amount

\* a completion that keeps the deposit in the loan contract
NoDepositRefund(e) == 0

\* the amount returned to the borrower when the loan completes
DepositRefund(e) == e.depositAmount

\* completion one installment early
AllButOnePaid(paymentsCompleted, termMonths) == ~(paymentsCompleted + 1 < termMonths)

\* the last installment has been paid
AllInstallmentsPaid(paymentsCompleted, termMonths) == ~(paymentsCompleted < termMonths)

\* nextPaymentDate taken from the installment just paid
NextPaymentDateOfPaid(e, completed) ==
    IF completed < e.termMonths THEN e.installments[completed].dueDate ELSE 0

\* nextPaymentDate once `completed` installments are paid: the due date of
\* the next one (installments[paymentsCompleted], counted from 0)
NextPaymentDate(e, completed) ==
    IF completed < e.termMonths THEN e.installments[completed + 1].dueDate ELSE 0

processInstallmentPaymentOk(l, n) ==
    LET e == loans[l]
    IN  /\ whenNotPaused(e)
        /\ e.depositPaid
        /\ e.status = "Active"
        /\ InstallmentNumberOk(e, n)
        /\ e.installments[n].status = "Pending"
        /\ CanPay(balance, e.user, PaymentAmount(e.installments[n], now))
        /\ RemainingAfterInstallment(e.remainingAmount, e.installments[n].amount) >= 0
        /\ AllInstallmentsPaid(e.paymentsCompleted + 1, e.termMonths)
              => CanPay(Pay(balance, e.user, PoolAddr, PaymentAmount(e.installments[n], now)),
                        l, DepositRefund(e))
        /\ recordPaymentOk(l)

processInstallmentPayment(l, n) ==
    LET e == loans[l]
    IN  IF processInstallmentPaymentOk(l, n)
        THEN LET inst == e.installments[n]
                 paymentAmount == PaymentAmount(inst, now)
                 completed == e.paymentsCompleted + 1
                 finished == AllInstallmentsPaid(completed, e.termMonths)
                 paid == Pay(balance, e.user, PoolAddr, paymentAmount)
             IN  /\ balance' = IF finished THEN Pay(paid, l, e.user, DepositRefund(e))
                                           ELSE paid
                 /\ loans' = [loans EXCEPT ![l] =
                        [e EXCEPT
                            !.installments[n].status = "Paid",
                            !.installments[n].paidDate = now,
                            !.paymentsCompleted = completed,
                            !.remainingAmount = RemainingAfterInstallment(@, inst.amount),
                            !.nextPaymentDate = NextPaymentDate(e, completed),
                            !.status = IF finished THEN "Completed" ELSE @,
                            !.paymentHistory = Append(@,
                                [amount |-> paymentAmount, timestamp |-> now,
                                 paymentType |-> "Installment"])]]
                 /\ userProfiles' = [userProfiles EXCEPT ![e.user] =
                        recordPaymentProfile(@, "Installment")]
                 /\ DoneEmitting("processInstallmentPayment", l, n,
                                  LateFeeApplied(e.user, inst, now))
                 /\ UNCHANGED <<now, authorizedContracts, poolStats, liquidityProviders,
                                authorizedEMIContracts, ticks, direct, authorizedMerchants, platform>>
        ELSE Reverted("processInstallmentPayment", l, n)

\* _adjustInstallmentsForEarlyPayment giving each unpaid installment all
\* that is left
NewMonthlyAmountUndivided(remainingAmount, earlyPaymentAmount, remainingInstallments) ==
    remainingAmount - earlyPaymentAmount

\* _adjustInstallmentsForEarlyPayment, called with remainingAmount already
\* reduced by the early payment: the amount it gives each unpaid installment
NewMonthlyAmount(remainingAmount, earlyPaymentAmount, remainingInstallments) ==
    (remainingAmount - earlyPaymentAmount) \div remainingInstallments

AdjustInstallmentsOk(e, remainingAmount, earlyPaymentAmount) ==
    e.termMonths - e.paymentsCompleted = 0 \/ remainingAmount - earlyPaymentAmount >= 0

AdjustInstallmentsForEarlyPayment(e, remainingAmount, earlyPaymentAmount) ==
    LET remainingInstallments == e.termMonths - e.paymentsCompleted
    IN  IF remainingInstallments = 0
        THEN e.installments
        ELSE [i \in 1..Len(e.installments) |->
                IF i > e.paymentsCompleted /\ i <= e.termMonths
                THEN [e.installments[i] EXCEPT !.amount =
                        NewMonthlyAmount(remainingAmount, earlyPaymentAmount,
                                         remainingInstallments)]
                ELSE e.installments[i]]

makeEarlyPaymentOk(l, amount) ==
    LET e == loans[l]
    IN  /\ whenNotPaused(e)
        /\ e.depositPaid
        /\ e.status = "Active"
        /\ amount > 0
        /\ amount <= e.remainingAmount
        /\ CanPay(balance, e.user, amount)
        /\ AdjustInstallmentsOk(e, e.remainingAmount - amount, amount)
        /\ recordPaymentOk(l)
        /\ e.remainingAmount - amount = 0
              => CanPay(Pay(balance, e.user, PoolAddr, amount), l, DepositRefund(e))

makeEarlyPayment(l, amount) ==
    LET e == loans[l]
    IN  IF makeEarlyPaymentOk(l, amount)
        THEN LET remaining == e.remainingAmount - amount
                 paid == Pay(balance, e.user, PoolAddr, amount)
             IN  /\ balance' = IF remaining = 0 THEN Pay(paid, l, e.user, DepositRefund(e))
                                                ELSE paid
                 /\ loans' = [loans EXCEPT ![l] =
                        [e EXCEPT
                            !.remainingAmount = remaining,
                            !.installments =
                                AdjustInstallmentsForEarlyPayment(e, remaining, amount),
                            !.status = IF remaining = 0 THEN "Completed" ELSE @,
                            !.paymentHistory = Append(@,
                                [amount |-> amount, timestamp |-> now,
                                 paymentType |-> "EarlyPayment"])]]
                 /\ userProfiles' = [userProfiles EXCEPT ![e.user] =
                        recordPaymentProfile(@, "EarlyPayment")]
                 /\ Done("makeEarlyPayment", l, amount)
                 /\ UNCHANGED <<now, authorizedContracts, poolStats, liquidityProviders,
                                authorizedEMIContracts, ticks, direct, authorizedMerchants, platform>>
        ELSE Reverted("makeEarlyPayment", l, amount)

\* modifier onlyEMIManager, admitting every caller
anyCaller(caller, l) == TRUE

\* modifier onlyEMIManager
onlyEMIManager(caller, l) == caller = loans[l].emiManager

\* pause / unpause (onlyEMIManager; Pausable reverts when already in that state)
pause(caller, l) ==
    IF onlyEMIManager(caller, l) /\ ~loans[l].paused
    THEN /\ loans' = [loans EXCEPT ![l].paused = TRUE]
         /\ DoneFrom(caller, "pause", l, 0)
         /\ LoanUnchanged
    ELSE RevertedFrom(caller, "pause", l, 0)

unpause(caller, l) ==
    IF onlyEMIManager(caller, l) /\ loans[l].paused
    THEN /\ loans' = [loans EXCEPT ![l].paused = FALSE]
         /\ DoneFrom(caller, "unpause", l, 0)
         /\ LoanUnchanged
    ELSE RevertedFrom(caller, "unpause", l, 0)

\* markAsDefaulted (onlyEMIManager)
markAsDefaultedOk(caller, l) ==
    /\ onlyEMIManager(caller, l)
    /\ recordDefaultOk(l, userProfiles[loans[l].user])

markAsDefaulted(caller, l) ==
    IF markAsDefaultedOk(caller, l)
    THEN /\ loans' = [loans EXCEPT ![l].status = "Defaulted"]
         /\ userProfiles' = [userProfiles EXCEPT ![loans[l].user] = recordDefaultProfile(@)]
         /\ DoneFrom(caller, "markAsDefaulted", l, 0)
         /\ UNCHANGED <<now, balance, authorizedContracts, poolStats, liquidityProviders,
                        authorizedEMIContracts, ticks, direct, authorizedMerchants, platform>>
    ELSE RevertedFrom(caller, "markAsDefaulted", l, 0)

\* the accounts that call a loan's manager functions: its manager and its borrower
AdminCallers(l) == {loans[l].emiManager, loans[l].user}

(***************************************************************************)
(* EMIManager                                                               *)
(***************************************************************************)
\* authorizeMerchant (onlyOwner)
authorizeMerchant(m, authorized) ==
    /\ authorizedMerchants' =
          IF authorized THEN authorizedMerchants \cup {m} ELSE authorizedMerchants \ {m}
    /\ Done("authorizeMerchant", m, IF authorized THEN 1 ELSE 0)
    /\ UNCHANGED <<now, balance, loans, userProfiles, authorizedContracts, poolStats,
                   liquidityProviders, authorizedEMIContracts, ticks, direct, platform>>

\* calculateMaxAmount
calculateMaxAmount(creditScore, onTimeRate) ==
    LET baseAmount == ((creditScore - EMIManager_MIN_CREDIT_SCORE) * 10000)
                          \div (MAX_CREDIT_SCORE - EMIManager_MIN_CREDIT_SCORE)
        historyMultiplier == IF onTimeRate > 9500 THEN 120
                             ELSE IF onTimeRate > 9000 THEN 110 ELSE 100
    IN  (baseAmount * historyMultiplier) \div 100

\* a score of exactly the minimum counted as too low
ScoreTooLowInclusive(profile) == profile.creditScore <= EMIManager_MIN_CREDIT_SCORE

\* verifyEligibility: the check of the minimum credit score
ScoreTooLow(profile) == profile.creditScore < EMIManager_MIN_CREDIT_SCORE

\* verifyEligibility: the check of the number of active EMIs
TooManyActiveEMIs(profile) == profile.activeEMIs > 5

\* verifyEligibility (view), of the profile getUserProfile returns
verifyEligibility(profile) ==
    IF ScoreTooLow(profile)
    THEN [isEligible |-> FALSE, creditScore |-> profile.creditScore, maxAmount |-> 0,
          reason |-> "Credit score too low"]
    ELSE IF TooManyActiveEMIs(profile)
    THEN [isEligible |-> FALSE, creditScore |-> profile.creditScore, maxAmount |-> 0,
          reason |-> "Too many active EMIs"]
    ELSE [isEligible |-> TRUE, creditScore |-> profile.creditScore,
          maxAmount |-> calculateMaxAmount(profile.creditScore, profile.onTimePaymentRate),
          reason |-> "Eligible for EMI"]

\* verifyEligibility called by an account: the call returns maxAmount (with
\* the rest of the EMIEligibility) and writes nothing
verifyEligibilityCall(u) ==
    /\ last' = Call("verifyEligibility", u, verifyEligibility(getUserProfile(u)).maxAmount, TRUE)
    /\ UNCHANGED chain

\* createEMIPlan: onlyAuthorizedMerchant, the `require`s, the constructor of
\* the new EMIContract and UserProfile.addEMI called by the manager
createEMIPlanOk(caller, request) ==
    LET eligibility == verifyEligibility(getUserProfile(request.user))
    IN  /\ caller \in authorizedMerchants
        /\ eligibility.isEligible
        /\ request.totalAmount <= eligibility.maxAmount
        /\ request.depositPercentage >= MIN_DEPOSIT_PERCENTAGE
        /\ request.depositPercentage <= MAX_DEPOSIT_PERCENTAGE
        /\ request.depositAmount
                = (request.totalAmount * request.depositPercentage) \div 10000
        /\ ConstructorOk(request.totalAmount, request.termMonths, request.depositAmount)
        /\ addEMIOk(ManagerAddr, userProfiles[request.user])

\* createEMIPlan(request) by `caller`; e is the address of the new EMIContract
\* and i the number of the request among PlanRequests
createEMIPlan(caller, e, request, i) ==
    IF createEMIPlanOk(caller, request)
    THEN /\ loans' = [loans EXCEPT ![e] =
                Constructor(request.user, ManagerAddr, request.totalAmount,
                            request.termMonths, request.interestRate,
                            request.depositAmount, now)]
         /\ userProfiles' = [userProfiles EXCEPT ![request.user] = addEMIProfile(@, now)]
         /\ Done("createEMIPlan", request.user, i)
         /\ UNCHANGED <<now, balance, authorizedContracts, poolStats, liquidityProviders,
                        authorizedEMIContracts, authorizedMerchants, ticks, direct, platform>>
    ELSE Reverted("createEMIPlan", request.user, i)

(***************************************************************************)
(* The system                                                               *)
(***************************************************************************)
\* the inputs the calls are made with
\* the days that pass in one step: from the deployment of a loan at day 1 to
\* the last day of the first installment's grace period, or to the day after
TickDays == {33, 34}
\* in the loan system time only steps past the grace period
LateTickDays == {34}
LoanAmounts == {1000}
DepositAmounts == {200}
TermChoices == {3}
RateChoices == {1200}
LiquidityAmounts == {MIN_LIQUIDITY - 1, MIN_LIQUIDITY}
RemoveAmounts == {0, 400, MIN_LIQUIDITY}
PoolAmounts == {500, 1000}
WithdrawAmounts == {300}
TransferEarlyAmounts == {100}
TransferRemoveAmounts == {0, MIN_LIQUIDITY}
InterleaveAmounts == {500}
InterleaveDeposits == {100}
InterleaveEarlyAmounts == {100}
ScoreChoices == {0, 590, 600, 1000}
PaymentTypes == {"Deposit", "Installment", "EarlyPayment"}
EarlyAmounts(e) == {0, 100, e.remainingAmount, e.remainingAmount + 1}

EarlyPayments(e) ==
    Cardinality({i \in 1..Len(e.paymentHistory) :
                    e.paymentHistory[i].paymentType = "EarlyPayment"})

\* the requests createEMIPlan is called with: a valid one, one above any
\* limit, one with a deposit percentage below the minimum and one whose
\* deposit is not the percentage of the amount
PlanRequests ==
    <<[totalAmount |-> 1000, termMonths |-> 3, interestRate |-> 1200,
       depositAmount |-> 200, depositPercentage |-> 2000],
      [totalAmount |-> 13000, termMonths |-> 3, interestRate |-> 1200,
       depositAmount |-> 2600, depositPercentage |-> 2000],
      [totalAmount |-> 1000, termMonths |-> 3, interestRate |-> 1200,
       depositAmount |-> 40, depositPercentage |-> 400],
      [totalAmount |-> 1000, termMonths |-> 3, interestRate |-> 1200,
       depositAmount |-> 100, depositPercentage |-> 2000]>>

PlanRequest(u, i) ==
    [user |-> u, totalAmount |-> PlanRequests[i].totalAmount,
     termMonths |-> PlanRequests[i].termMonths,
     interestRate |-> PlanRequests[i].interestRate,
     depositAmount |-> PlanRequests[i].depositAmount,
     depositPercentage |-> PlanRequests[i].depositPercentage]

Deployed == {l \in LoanIds : loans[l].deployed}

\* the address the next EMIContract of EMIManager gets
NextPlan == {e \in PlanIds : /\ ~loans[e].deployed
                             /\ \A i, j \in 1..MaxPlans :
                                    (PlanNames[j] = e /\ i < j) => loans[PlanNames[i]].deployed}

\* the loan addresses no contract is deployed at yet
NextLoan == LoanIds \ Deployed

(***************************************************************************)
(* EMIPlatform                                                              *)
(***************************************************************************)
\* the ids payInstallment and payNow are called with: 0 is never a loan
PlatformLoanIds == 0..MaxPlatformLoans

\* a slot of the mapping `loans` that was never written
NoPlatformLoan ==
    [buyer |-> ZeroAddress, seller |-> ZeroAddress, token |-> ZeroAddress,
     totalAmount |-> 0, installments |-> 0, installmentsPaid |-> 0, paidAmount |-> 0,
     installmentAmount |-> 0, createdAt |-> 0, nextDue |-> 0, active |-> FALSE]

PlatformUnchanged ==
    UNCHANGED <<now, balance, loans, userProfiles, authorizedContracts, poolStats,
                liquidityProviders, authorizedEMIContracts, authorizedMerchants, ticks,
                direct>>

\* createLoan
createLoanOk(seller, token, totalAmount, installments) ==
    /\ seller # ZeroAddress
    /\ token # ZeroAddress
    /\ totalAmount > 0
    /\ installments >= 1

createLoan(buyer, seller, token, totalAmount, installments) ==
    IF createLoanOk(seller, token, totalAmount, installments)
    THEN LET id == nextLoanId + 1
         IN  /\ nextLoanId' = id
             /\ platformLoans' = [platformLoans EXCEPT ![id] =
                    [buyer |-> buyer, seller |-> seller, token |-> token,
                     totalAmount |-> totalAmount, installments |-> installments,
                     installmentsPaid |-> 0, paidAmount |-> 0,
                     installmentAmount |-> totalAmount \div installments,
                     createdAt |-> now, nextDue |-> now, active |-> TRUE]]
             /\ DoneFrom(buyer, "createLoan", PlatformAddr, id)
             /\ UNCHANGED <<sellerBalances, tokenBalances, withdrawn>>
             /\ PlatformUnchanged
    ELSE RevertedFrom(buyer, "createLoan", PlatformAddr, 0)

\* payInstallment taking the nominal installment every time
thisInstallmentNominal(L) == L.installmentAmount

\* payInstallment: the last installment is the remaining amount
thisInstallment(L) ==
    IF L.installmentsPaid + 1 = L.installments
    THEN L.totalAmount - L.paidAmount
    ELSE L.installmentAmount

\* payInstallment: require(block.timestamp >= L.nextDue)
Due(L, t) == t >= L.nextDue

payInstallmentOk(loanId) ==
    LET L == platformLoans[loanId]
    IN  /\ L.active
        /\ L.paidAmount < L.totalAmount
        /\ Due(L, now)
        /\ thisInstallment(L) > 0
        /\ CanPay(tokenBalances[L.token], L.buyer, thisInstallment(L))
        /\ L.installmentsPaid + 1 <= MaxUint8

payInstallment(loanId) ==
    IF payInstallmentOk(loanId)
    THEN LET L == platformLoans[loanId]
             amount == thisInstallment(L)
             paid == L.paidAmount + amount
         IN  /\ tokenBalances' = [tokenBalances EXCEPT ![L.token] =
                    Pay(@, L.buyer, PlatformAddr, amount)]
             /\ platformLoans' = [platformLoans EXCEPT ![loanId] =
                    [L EXCEPT !.paidAmount = paid,
                              !.installmentsPaid = @ + 1,
                              !.nextDue = @ + INTERVAL,
                              !.active = ~(paid >= L.totalAmount)]]
             /\ sellerBalances' = [sellerBalances EXCEPT ![L.seller][L.token] = @ + amount]
             /\ Done("payInstallment", PlatformAddr, loanId)
             /\ UNCHANGED <<nextLoanId, withdrawn>>
             /\ PlatformUnchanged
    ELSE Reverted("payInstallment", PlatformAddr, loanId)

\* payNow
payNowOk(loanId) ==
    LET L == platformLoans[loanId]
    IN  /\ L.active
        /\ L.paidAmount < L.totalAmount
        /\ L.totalAmount - L.paidAmount > 0
        /\ CanPay(tokenBalances[L.token], L.buyer, L.totalAmount - L.paidAmount)

payNow(loanId) ==
    IF payNowOk(loanId)
    THEN LET L == platformLoans[loanId]
             remaining == L.totalAmount - L.paidAmount
         IN  /\ tokenBalances' = [tokenBalances EXCEPT ![L.token] =
                    Pay(@, L.buyer, PlatformAddr, remaining)]
             /\ platformLoans' = [platformLoans EXCEPT ![loanId] =
                    [L EXCEPT !.paidAmount = L.totalAmount,
                              !.installmentsPaid = L.installments,
                              !.active = FALSE]]
             /\ sellerBalances' = [sellerBalances EXCEPT ![L.seller][L.token] = @ + remaining]
             /\ Done("payNow", PlatformAddr, loanId)
             /\ UNCHANGED <<nextLoanId, withdrawn>>
             /\ PlatformUnchanged
    ELSE Reverted("payNow", PlatformAddr, loanId)

\* sellerWithdraw paying out without clearing the recorded balance
sellerWithdrawKept(bal) == bal

\* sellerWithdraw: sellerBalances[msg.sender][token] = 0
sellerWithdrawCleared(bal) == 0

\* sellerWithdraw
sellerWithdrawOk(seller, token) ==
    /\ sellerBalances[seller][token] > 0
    /\ CanPay(tokenBalances[token], PlatformAddr, sellerBalances[seller][token])

sellerWithdraw(seller, token) ==
    IF sellerWithdrawOk(seller, token)
    THEN LET bal == sellerBalances[seller][token]
         IN  /\ sellerBalances' = [sellerBalances EXCEPT ![seller][token] =
                    sellerWithdrawCleared(bal)]
             /\ tokenBalances' = [tokenBalances EXCEPT ![token] =
                    Pay(@, PlatformAddr, seller, bal)]
             /\ withdrawn' = [withdrawn EXCEPT ![seller][token] = @ + bal]
             /\ DoneFrom(seller, "sellerWithdraw", token, bal)
             /\ UNCHANGED <<nextLoanId, platformLoans>>
             /\ PlatformUnchanged
    ELSE RevertedFrom(seller, "sellerWithdraw", token, 0)

\* the owner grants UserProfile's authorizations in one order: UserProfile
\* itself, the agent, then each loan that LiquidityPool has authorized
NextGrant ==
    IF ProfileAddr \notin authorizedContracts THEN {ProfileAddr}
    ELSE IF Agent \notin authorizedContracts THEN {Agent}
    ELSE (LoanIds \cap authorizedEMIContracts) \ authorizedContracts

Init ==
    /\ now = 1
    /\ balance = [a \in Addresses |->
                    IF a \in Users THEN UserFunds
                    ELSE IF a \in PoolProviders THEN ProviderFunds ELSE 0]
    /\ loans = [l \in Contracts |-> NoLoan]
    /\ userProfiles = [u \in Users |-> NoProfile]
    /\ authorizedContracts = {}
    /\ poolStats = NoStats
    /\ liquidityProviders = [p \in PoolProviders |-> NoProvider]
    /\ authorizedEMIContracts = {}
    /\ authorizedMerchants = {}
    /\ ticks = 0
    /\ direct = 0
    /\ nextLoanId = 0
    /\ platformLoans = [id \in PlatformLoanIds |-> NoPlatformLoan]
    /\ sellerBalances = [a \in Sellers |-> [t \in Tokens |-> 0]]
    /\ tokenBalances = [t \in Tokens |-> [a \in PlatformAccounts |->
                            IF a \in Buyers THEN BuyerFunds ELSE 0]]
    /\ withdrawn = [a \in Sellers |-> [t \in Tokens |-> 0]]
    /\ last = Call("init", "", 0, TRUE)

\* time passes between two transactions
Tick(d) ==
    /\ ticks < MaxTicks
    /\ now' = now + d
    /\ ticks' = ticks + 1
    /\ Done("tick", "", d)
    /\ UNCHANGED <<balance, loans, userProfiles, authorizedContracts, poolStats,
                   liquidityProviders, authorizedEMIContracts, direct, authorizedMerchants, platform>>

\* the loan system: loans from deployment to completion or default, the
\* liquidity that funds them and the authorizations they need
Next ==
    \/ \E d \in LateTickDays : Tick(d)
    \/ \E a \in NextGrant : authorizeContract(a, TRUE)
    \/ \E a \in LoanIds \ authorizedEMIContracts :
          Agent \in authorizedContracts /\ authorizeEMIContract(a, TRUE)
    \/ \E l \in NextLoan, u \in Users, t \in LoanAmounts, m \in TermChoices,
          r \in RateChoices, d \in DepositAmounts : deployEMI(l, Agent, u, t, m, r, d)
    \/ \E l \in Deployed : processDeposit(l)
    \/ \E l \in Deployed, n \in 0..4 :
          n <= loans[l].termMonths + 1 /\ processInstallmentPayment(l, n)
    \/ \E l \in Deployed : \E a \in EarlyAmounts(loans[l]) :
          EarlyPayments(loans[l]) < MaxEarly /\ makeEarlyPayment(l, a)
    \/ \E l \in Deployed : pause(loans[l].emiManager, l)
    \/ \E l \in Deployed : unpause(loans[l].emiManager, l)
    \/ \E l \in Deployed : markAsDefaulted(loans[l].emiManager, l)
    \/ \E p \in Providers : addLiquidity(p, MIN_LIQUIDITY)
    \/ \E u \in Users : userProfiles[u].totalEMIs < Cardinality(Deployed) /\ addEMI(Agent, u)

Spec == Init /\ [][Next]_vars

\* a loan's manager functions called by its manager and by its borrower,
\* next to the borrower's payments made in order
NextAdmin ==
    \/ \E d \in LateTickDays : Tick(d)
    \/ \E a \in NextGrant : authorizeContract(a, TRUE)
    \/ \E a \in LoanIds \ authorizedEMIContracts :
          Agent \in authorizedContracts /\ authorizeEMIContract(a, TRUE)
    \/ \E l \in NextLoan, u \in Users, t \in LoanAmounts, m \in TermChoices,
          r \in RateChoices, d \in DepositAmounts : deployEMI(l, Agent, u, t, m, r, d)
    \/ \E p \in Providers : addLiquidity(p, MIN_LIQUIDITY)
    \/ \E u \in Users : userProfiles[u].totalEMIs < Cardinality(Deployed) /\ addEMI(Agent, u)
    \/ \E l \in Deployed : processDeposit(l)
    \/ \E l \in Deployed : processInstallmentPayment(l, loans[l].paymentsCompleted + 1)
    \/ \E l \in Deployed : \E a \in TransferEarlyAmounts :
          EarlyPayments(loans[l]) < MaxEarly /\ makeEarlyPayment(l, a)
    \/ \E l \in Deployed : \E c \in AdminCallers(l) : pause(c, l)
    \/ \E l \in Deployed : \E c \in AdminCallers(l) : unpause(c, l)
    \/ \E l \in Deployed : \E c \in AdminCallers(l) : markAsDefaulted(c, l)

SpecAdmin == Init /\ [][NextAdmin]_vars

\* the pool: its operations called in any order by providers, the owner and
\* an authorized account
NextPool ==
    \/ \E d \in TickDays : Tick(d)
    \/ \E b \in BOOLEAN : authorizeEMIContract(Agent, b)
    \/ \E p \in Providers, a \in LiquidityAmounts : addLiquidity(p, a)
    \/ \E p \in Providers, a \in RemoveAmounts : removeLiquidity(p, a)
    \/ \E p \in Providers : claimInterest(p)
    \/ \E a \in PoolAmounts : transferToMerchant(Agent, a)
    \/ \E a \in PoolAmounts : receiveEMIPayment(Agent, a)
    \/ \E a \in WithdrawAmounts : emergencyWithdraw(a)

SpecPool == Init /\ [][NextPool]_vars

\* the pool with several providers: deposits, withdrawals and interest claims
\* in any order, as time passes
NextProviders ==
    \/ \E d \in TickDays : Tick(d)
    \/ \E p \in PoolProviders, a \in LiquidityAmounts : addLiquidity(p, a)
    \/ \E p \in PoolProviders, a \in RemoveAmounts : removeLiquidity(p, a)
    \/ \E p \in PoolProviders : claimInterest(p)

SpecProviders == Init /\ [][NextProviders]_vars

\* the credit profiles: their operations called in any order by the owner
\* and an authorized account
NextProfile ==
    \/ \E d \in TickDays : Tick(d)
    \/ \E a \in {Agent, ProfileAddr}, b \in BOOLEAN : authorizeContract(a, b)
    \/ \E u \in Users : direct < MaxDirect /\ createProfile(Agent, u)
    \/ \E u \in Users : direct < MaxDirect /\ addEMI(Agent, u)
    \/ \E u \in Users, t \in PaymentTypes : direct < MaxDirect /\ recordPayment(Agent, u, t)
    \/ \E u \in Users : direct < MaxDirect /\ completeEMI(Agent, u)
    \/ \E u \in Users : direct < MaxDirect /\ recordDefault(Agent, u)
    \/ \E u \in Users : direct < MaxDirect /\ recordLatePayment(Agent, u)
    \/ \E u \in Users, v \in ScoreChoices : direct < MaxDirect /\ updateCreditScore(u, v)

SpecProfile == Init /\ [][NextProfile]_vars

\* calculateInterestRate: the score adjustment, taking its first discount
\* above 750 only
ScoreAdjustedAbove750(baseRate, creditScore) ==
    IF creditScore > 750 THEN (baseRate * 90) \div 100
    ELSE IF creditScore >= 700 THEN (baseRate * 95) \div 100
    ELSE IF creditScore < 650 THEN (baseRate * 110) \div 100
    ELSE baseRate

\* calculateInterestRate: the adjustment based on credit score
ScoreAdjusted(baseRate, creditScore) ==
    IF creditScore >= 750 THEN (baseRate * 90) \div 100
    ELSE IF creditScore >= 700 THEN (baseRate * 95) \div 100
    ELSE IF creditScore < 650 THEN (baseRate * 110) \div 100
    ELSE baseRate

\* calculateInterestRate: the adjustment based on term
TermAdjusted(baseRate, termMonths) ==
    IF termMonths > 12 THEN (baseRate * 105) \div 100
    ELSE IF termMonths <= 6 THEN (baseRate * 95) \div 100
    ELSE baseRate

\* calculateInterestRate (external pure)
calculateInterestRate(creditScore, termMonths) ==
    TermAdjusted(ScoreAdjusted(BASE_INTEREST_RATE, creditScore), termMonths)

calculateInterestRateCall(creditScore, termMonths) ==
    Returned("calculateInterestRate", ManagerAddr, <<creditScore, termMonths>>,
             calculateInterestRate(creditScore, termMonths))

\* the scores and terms calculateInterestRate is asked about: both sides of
\* each threshold of the function and the ends of the score range
RateScores == {0, 299, 300, 600, 649, 650, 651, 699, 700, 701, 749, 750, 751, 850, 851}

RateTerms == {0, 1, 3, 6, 7, 12, 13, 24}

\* EMIManager's rate quotes, asked in any order
NextRate == \E c \in RateScores, m \in RateTerms : calculateInterestRateCall(c, m)

SpecRate == Init /\ [][NextRate]_vars

\* EMIManager: merchants create loans for users whose profiles the owner and
\* an authorized account also write
NextManager ==
    \/ \E b \in BOOLEAN : authorizeMerchant(Merchant, b)
    \/ \E a \in {ManagerAddr, ProfileAddr, Agent} \ authorizedContracts :
          authorizeContract(a, TRUE)
    \/ \E u \in Users : direct < MaxDirect /\ createProfile(Agent, u)
    \/ \E u \in Users, v \in ScoreChoices : direct < MaxDirect /\ updateCreditScore(u, v)
    \/ \E u \in Users : direct < MaxDirect /\ completeEMI(Agent, u)
    \/ \E u \in Users : direct < MaxDirect /\ recordDefault(Agent, u)
    \/ \E u \in Users : verifyEligibilityCall(u)
    \/ \E e \in NextPlan, u \in Users, i \in 1..Len(PlanRequests) :
          createEMIPlan(Merchant, e, PlanRequest(u, i), i)

SpecManager == Init /\ [][NextManager]_vars

\* the operations that move tokens: a loan paid by its borrower next to a
\* provider adding, removing and claiming; the loan is authorized in
\* UserProfile, then in LiquidityPool, then deployed
NextTransfers ==
    \/ \E d \in TickDays : Tick(d)
    \/ \E l \in LoanIds \ authorizedContracts : authorizeContract(l, TRUE)
    \/ \E l \in (LoanIds \cap authorizedContracts) \ authorizedEMIContracts :
          authorizeEMIContract(l, TRUE)
    \/ \E l \in NextLoan \cap authorizedEMIContracts, u \in Users, t \in LoanAmounts,
          m \in TermChoices, r \in RateChoices, d \in DepositAmounts :
            deployEMI(l, Agent, u, t, m, r, d)
    \/ \E l \in Deployed : processDeposit(l)
    \/ \E l \in Deployed : processInstallmentPayment(l, loans[l].paymentsCompleted + 1)
    \/ \E l \in Deployed : \E a \in TransferEarlyAmounts :
          EarlyPayments(loans[l]) < MaxEarly /\ makeEarlyPayment(l, a)
    \/ \E p \in Providers : addLiquidity(p, MIN_LIQUIDITY)
    \/ \E p \in Providers, a \in TransferRemoveAmounts : removeLiquidity(p, a)
    \/ \E p \in Providers : claimInterest(p)

SpecTransfers == Init /\ [][NextTransfers]_vars

\* the order in which the owner grants UserProfile's authorizations when two
\* loans are set up
GrantOrder == <<ProfileAddr, Agent, "L1", "L2">>

\* the next address of GrantOrder to authorize in UserProfile
NextGrantBoth ==
    {GrantOrder[i] : i \in {j \in 1..Len(GrantOrder) :
        /\ GrantOrder[j] \notin authorizedContracts
        /\ \A k \in 1..(j - 1) : GrantOrder[k] \in authorizedContracts}}

\* the next loan to authorize in LiquidityPool or to deploy, L1 before L2
FirstOf(S) == {l \in S : l = "L1" \/ "L1" \notin S}

DeployedBoth == {l \in BothLoans : loans[l].deployed}

\* two loans of one borrower: set up one step after the other (authorizations,
\* liquidity, deployments, the two addEMI), then paid and defaulted in any
\* interleaving of the calls on the two loans
NextInterleave ==
    \/ \E a \in NextGrantBoth : authorizeContract(a, TRUE)
    \/ \E l \in FirstOf(BothLoans \ authorizedEMIContracts) :
          BothLoans \subseteq authorizedContracts /\ authorizeEMIContract(l, TRUE)
    \/ \E p \in Providers :
          BothLoans \subseteq authorizedEMIContracts /\ addLiquidity(p, MIN_LIQUIDITY)
    \/ \E l \in FirstOf(BothLoans \ DeployedBoth), u \in Users, t \in InterleaveAmounts,
          m \in TermChoices, r \in RateChoices, d \in InterleaveDeposits :
            poolStats.totalLiquidity > 0 /\ deployEMI(l, Agent, u, t, m, r, d)
    \/ \E u \in Users :
          /\ DeployedBoth = BothLoans
          /\ userProfiles[u].totalEMIs < Cardinality(DeployedBoth)
          /\ addEMI(Agent, u)
    \/ \E l \in DeployedBoth : processDeposit(l)
    \/ \E l \in DeployedBoth : processInstallmentPayment(l, loans[l].paymentsCompleted + 1)
    \/ \E l \in DeployedBoth : \E a \in InterleaveEarlyAmounts :
          EarlyPayments(loans[l]) < MaxEarly /\ makeEarlyPayment(l, a)
    \/ \E l \in DeployedBoth : markAsDefaulted(loans[l].emiManager, l)

SpecInterleave == Init /\ [][NextInterleave]_vars

\* the loans asked of EMIPlatform: seller, token, totalAmount, installments
\* in the order they are made (three installments with a remainder, fewer
\* tokens than installments, a single installment, three installments that
\* the buyer cannot all pay), and a request createLoan refuses
PlatformRequestOrder ==
    << <<"m1", "PYUSD", 10, 3>>, <<"m2", "USDT", 2, 3>>, <<"m2", "PYUSD", 7, 1>>,
       <<"m1", "USDT", 12, 3>> >>

RefusedRequest == <<"m1", "USDT", 0, 3>>

PlatformRequests ==
    {RefusedRequest} \cup {PlatformRequestOrder[i] : i \in {nextLoanId + 1}
                                                      \cap 1..Len(PlatformRequestOrder)}

\* the days that pass at once: one interval or three
IntervalDays == {INTERVAL, 3 * INTERVAL}

\* EMIPlatform: loans created and paid by installments or at once, sellers
\* withdrawing, in any order
NextPlatform ==
    \/ \E d \in IntervalDays : Tick(d)
    \/ \E b \in Buyers, r \in PlatformRequests :
          nextLoanId < MaxPlatformLoans /\ createLoan(b, r[1], r[2], r[3], r[4])
    \/ \E id \in PlatformLoanIds : payInstallment(id)
    \/ \E id \in PlatformLoanIds : payNow(id)
    \/ \E a \in Sellers, t \in Tokens : sellerWithdraw(a, t)

SpecPlatform == Init /\ [][NextPlatform]_vars

(***************************************************************************)
(* Properties                                                               *)
(***************************************************************************)
RECURSIVE SumOver(_, _)
\* the sum of f[i].amount over the indices i in S
SumOver(f, S) ==
    IF S = {} THEN 0
    ELSE LET i == CHOOSE x \in S : TRUE
         IN  f[i].amount + SumOver(f, S \ {i})

\* the amounts of the Paid installments of loan e
PaidSum(e) ==
    SumOver(e.installments,
            {i \in 1..Len(e.installments) : e.installments[i].status = "Paid"})

\* the amounts of the early payments of loan e
EarlySum(e) ==
    SumOver(e.paymentHistory,
            {i \in 1..Len(e.paymentHistory) :
                e.paymentHistory[i].paymentType = "EarlyPayment"})

\* the amounts of the whole schedule of loan e
ScheduleSum(e) == SumOver(e.installments, 1..Len(e.installments))

Terminal == {"Completed", "Defaulted", "Cancelled"}

\* C1: after every pool operation availableLiquidity + lockedLiquidity equals
\* totalLiquidity, and neither availableLiquidity nor lockedLiquidity is negative.
C1_PoolBalanced ==
    /\ poolStats.availableLiquidity + poolStats.lockedLiquidity = poolStats.totalLiquidity
    /\ poolStats.availableLiquidity >= 0
    /\ poolStats.lockedLiquidity >= 0

\* C2 as stated: for every loan, the Paid installments plus the deposit (once
\* paid) equal totalAmount - remainingAmount.
C2_PaidPlusDeposit ==
    \A l \in Deployed :
        PaidSum(loans[l]) + (IF loans[l].depositPaid THEN loans[l].depositAmount ELSE 0)
            = loans[l].totalAmount - loans[l].remainingAmount

\* C2 as amended: for every loan, the Paid installments plus the early
\* payments equal (totalAmount - depositAmount + totalInterest) - remainingAmount.
C2_PaidPlusEarly ==
    \A l \in Deployed :
        PaidSum(loans[l]) + EarlySum(loans[l])
            = TotalWithInterest(loans[l].totalAmount, loans[l].depositAmount,
                                loans[l].interestRate, loans[l].termMonths)
                - loans[l].remainingAmount

\* C2 witness: a loan with its deposit paid, an installment paid and an early payment made
C2_Witness ==
    \E l \in Deployed :
        /\ loans[l].depositPaid
        /\ loans[l].depositAmount > 0
        /\ PaidSum(loans[l]) > 0
        /\ EarlySum(loans[l]) > 0

\* C3: processInstallmentPayment(n) with n # paymentsCompleted + 1 fails and
\* changes nothing, a successful one pays installment paymentsCompleted + 1, and
\* so the Paid installments of a loan are always exactly 1..paymentsCompleted.
C3_InOrder ==
    /\ [](\A l \in Deployed : \A i \in 1..Len(loans[l].installments) :
            (loans[l].installments[i].status = "Paid") <=> (i <= loans[l].paymentsCompleted))
    /\ [][\A l \in LoanIds :
            (last'.op = "processInstallmentPayment" /\ last'.target = l)
            => /\ last'.arg # loans[l].paymentsCompleted + 1
                    => (~last'.ok /\ UNCHANGED chain)
               /\ last'.ok
                    => /\ loans[l].installments[last'.arg].status = "Pending"
                       /\ loans'[l].installments[last'.arg].status = "Paid"
                       /\ loans'[l].paymentsCompleted = last'.arg]_vars

\* C3 witness: on an active, authorized loan with installment 1 paid, a call
\* for installment 3 has just been refused
C3_Witness ==
    \E l \in Deployed :
        /\ last = Call("processInstallmentPayment", l, 3, FALSE)
        /\ loans[l].status = "Active"
        /\ ~loans[l].paused
        /\ l \in authorizedContracts
        /\ loans[l].paymentsCompleted = 1
        /\ loans[l].termMonths = 3
        /\ CanPay(balance, loans[l].user, loans[l].installments[3].amount)

\* the operations of UserProfile that write a profile
ProfileOps == {"createProfile", "addEMI", "recordPayment", "completeEMI", "recordDefault",
               "recordLatePayment", "updateCreditScore"}

\* C4: after any successful operation on a credit profile, the creditScore of
\* every user, as getUserProfile returns it, lies in [300, 850].
C4_ScoreInRange ==
    (last.op \in ProfileOps /\ last.ok)
    => \A u \in Users :
        /\ getUserProfile(u).creditScore >= MIN_CREDIT_SCORE
        /\ getUserProfile(u).creditScore <= MAX_CREDIT_SCORE

\* C5: transferToMerchant by an authorized caller fails when amount >
\* availableLiquidity and, the token transfer succeeding, only then; a failed
\* call leaves the pool counters unchanged; a successful one moves exactly
\* amount from available to locked and adds 1 to totalEMIsFinanced.
C5_TransferToMerchant ==
    [][(last'.op = "transferToMerchant" /\ last'.target \in authorizedEMIContracts)
        => /\ last'.arg > poolStats.availableLiquidity => ~last'.ok
           /\ (last'.arg <= poolStats.availableLiquidity
                    /\ CanPay(balance, PoolAddr, last'.arg)) => last'.ok
           /\ ~last'.ok => poolStats' = poolStats
           /\ last'.ok =>
                poolStats' = [poolStats EXCEPT
                    !.availableLiquidity = @ - last'.arg,
                    !.lockedLiquidity = @ + last'.arg,
                    !.totalEMIsFinanced = @ + 1]]_vars

\* C5 witness: a call by the authorized account for more than the (non-zero)
\* available liquidity has just failed
C5_Witness ==
    /\ last.op = "transferToMerchant"
    /\ ~last.ok
    /\ last.target \in authorizedEMIContracts
    /\ poolStats.availableLiquidity > 0
    /\ last.arg > poolStats.availableLiquidity

\* C6: a loan whose status is Completed, Defaulted or Cancelled keeps it for
\* ever, and the only status changes are Created -> Active and Active ->
\* Completed, Defaulted or Cancelled.
C6_StatusMonotonic ==
    [][\A l \in Deployed :
            /\ loans[l].status \in Terminal => loans'[l].status = loans[l].status
            /\ loans'[l].status # loans[l].status
                => \/ loans[l].status = "Created" /\ loans'[l].status = "Active"
                   \/ loans[l].status = "Active" /\ loans'[l].status \in Terminal]_vars

\* C7: processDeposit called while availableLiquidity is less than the loan's
\* principal fails and changes nothing: loan, balances, pool and profile.
C7_DepositNeedsLiquidity ==
    [][\A l \in LoanIds :
            (last'.op = "processDeposit" /\ last'.target = l
                /\ poolStats.availableLiquidity < loans[l].totalAmount)
            => (~last'.ok /\ UNCHANGED chain)]_vars

\* C7 witness: a processDeposit that only the lack of liquidity could stop has
\* just failed
C7_Witness ==
    \E l \in Deployed :
        /\ last = Call("processDeposit", l, loans[l].depositAmount, FALSE)
        /\ loans[l].status = "Created"
        /\ ~loans[l].depositPaid
        /\ ~loans[l].paused
        /\ loans[l].depositAmount > 0
        /\ CanPay(balance, loans[l].user, loans[l].depositAmount)
        /\ l \in authorizedContracts
        /\ l \in authorizedEMIContracts
        /\ poolStats.availableLiquidity < loans[l].totalAmount

\* C8: a successful processDeposit moves exactly the loan's totalAmount from
\* availableLiquidity to lockedLiquidity and pays the merchant that amount.
C8_FullPrincipal ==
    [][\A l \in LoanIds :
            (last'.op = "processDeposit" /\ last'.target = l /\ last'.ok)
            => /\ poolStats'.availableLiquidity
                    = poolStats.availableLiquidity - loans[l].totalAmount
               /\ poolStats'.lockedLiquidity
                    = poolStats.lockedLiquidity + loans[l].totalAmount
               /\ balance'[Merchant] = balance[Merchant] + loans[l].totalAmount]_vars

\* C8 witness: the deposit of a loan with a non-zero deposit has just been processed
C8_Witness ==
    \E l \in Deployed :
        /\ last = Call("processDeposit", l, loans[l].depositAmount, TRUE)
        /\ loans[l].depositAmount > 0
        /\ loans[l].depositAmount < loans[l].totalAmount

\* C9: on a loan with no early payments a successful processDeposit makes the
\* loan Active, and a successful installment payment adds 1 to
\* paymentsCompleted and leaves the loan Active, unless it is the
\* termMonths-th, which makes it Completed.
C9_DepositThenInstallments ==
    [][\A l \in LoanIds :
            (last'.target = l /\ last'.ok /\ EarlyPayments(loans[l]) = 0)
            => /\ last'.op = "processDeposit"
                    => (loans[l].status = "Created" /\ loans'[l].status = "Active")
               /\ last'.op = "processInstallmentPayment"
                    => /\ loans[l].status = "Active"
                       /\ loans'[l].paymentsCompleted = loans[l].paymentsCompleted + 1
                       /\ loans'[l].status =
                            IF loans'[l].paymentsCompleted = loans[l].termMonths
                            THEN "Completed" ELSE "Active"]_vars

\* C9 witness: the third installment of a three-month loan without early
\* payments has just been paid
C9_Witness ==
    \E l \in Deployed :
        /\ last = Call("processInstallmentPayment", l, 3, TRUE)
        /\ loans[l].termMonths = 3
        /\ loans[l].paymentsCompleted = 3
        /\ loans[l].status = "Completed"
        /\ EarlyPayments(loans[l]) = 0

\* C10: the schedule of a loan without early payments sums to the principal
\* after deposit plus the interest, and once all its installments are paid its
\* remainingAmount is 0.
C10_RemainderAbsorbed ==
    \A l \in Deployed :
        EarlyPayments(loans[l]) = 0
        => /\ ScheduleSum(loans[l])
                = TotalWithInterest(loans[l].totalAmount, loans[l].depositAmount,
                                    loans[l].interestRate, loans[l].termMonths)
           /\ loans[l].paymentsCompleted = loans[l].termMonths
                => loans[l].remainingAmount = 0

\* C11: a successful processInstallmentPayment at a time later than the
\* installment's dueDate + 3 days charges amount + floor(amount * 500 / 10000)
\* and emits LateFeeApplied with that fee; at any time up to and including
\* dueDate + 3 days it charges the installment's amount and emits no LateFeeApplied.
C11_LateFee ==
    [][\A l \in LoanIds :
            (last'.op = "processInstallmentPayment" /\ last'.target = l /\ last'.ok)
            => LET inst == loans[l].installments[last'.arg]
                   fee == (inst.amount * 500) \div 10000
                   late == now > inst.dueDate + 3
                   charge == IF late THEN inst.amount + fee ELSE inst.amount
               IN  /\ balance'[PoolAddr] = balance[PoolAddr] + charge
                   /\ loans'[l].paymentHistory[Len(loans'[l].paymentHistory)].amount = charge
                   /\ last'.events =
                        IF late
                        THEN <<[event |-> "LateFeeApplied", user |-> loans[l].user,
                                installmentNumber |-> last'.arg, lateFee |-> fee]>>
                        ELSE <<>>]_vars

\* C11 witness: an installment has just been paid 4 days after its due date,
\* with a non-zero late fee
C11_Witness ==
    \E l \in Deployed :
        /\ last.op = "processInstallmentPayment" /\ last.target = l /\ last.ok
        /\ now = loans[l].installments[last.arg].dueDate + 4
        /\ Len(last.events) = 1
        /\ last.events[1].lateFee > 0

\* C12: makeEarlyPayment of the loan's whole remainingAmount, on an active,
\* unpaused, authorized loan whose borrower holds the amount, succeeds and
\* completes the loan: status Completed, remainingAmount 0 and the deposit
\* refunded to the borrower.
C12_FullEarlyPayoff ==
    [][\A l \in LoanIds :
            (/\ last'.op = "makeEarlyPayment" /\ last'.target = l
             /\ last'.arg = loans[l].remainingAmount
             /\ last'.arg > 0
             /\ loans[l].status = "Active" /\ loans[l].depositPaid /\ ~loans[l].paused
             /\ l \in authorizedContracts
             /\ CanPay(balance, loans[l].user, last'.arg))
            => /\ last'.ok
               /\ loans'[l].status = "Completed"
               /\ loans'[l].remainingAmount = 0
               /\ balance'[loans[l].user]
                    = balance[loans[l].user] - last'.arg + loans[l].depositAmount]_vars

\* C13: a successful installment payment of a borrower with a profile, made
\* after dueDate + grace, does not raise the borrower's creditScore but lowers
\* it (down to 300 at most); made in time it raises the score by 2 (up to 850
\* at most).
C13_LatePaymentPenalty ==
    [][\A l \in LoanIds :
            (/\ last'.op = "processInstallmentPayment" /\ last'.target = l /\ last'.ok
             /\ userProfiles[loans[l].user].joinDate # 0)
            => LET u == loans[l].user
                   inst == loans[l].installments[last'.arg]
                   old == userProfiles[u].creditScore
                   new == userProfiles'[u].creditScore
               IN  IF now > inst.dueDate + 3
                   THEN new < old \/ new = 300
                   ELSE new = (IF old + 2 > 850 THEN 850 ELSE old + 2)]_vars

\* C14: the operation that makes a loan Completed, the borrower having an
\* active loan on record, also records the completion in the borrower's
\* profile: activeEMIs decreases by 1 and completedEMIs increases by 1.
C14_CompletionRecorded ==
    [][\A l \in LoanIds :
            (/\ loans[l].status # "Completed" /\ loans'[l].status = "Completed"
             /\ userProfiles[loans[l].user].activeEMIs > 0)
            => /\ userProfiles'[loans[l].user].activeEMIs
                    = userProfiles[loans[l].user].activeEMIs - 1
               /\ userProfiles'[loans[l].user].completedEMIs
                    = userProfiles[loans[l].user].completedEMIs + 1]_vars

\* C15: for every user profile, activeEMIs = totalEMIs - completedEMIs -
\* defaultedEMIs and activeEMIs >= 0, whatever calls of addEMI, completeEMI and
\* recordDefault were made, failed ones included.
C15_ActiveCount ==
    \A u \in Users :
        /\ userProfiles[u].activeEMIs
            = userProfiles[u].totalEMIs - userProfiles[u].completedEMIs
                - userProfiles[u].defaultedEMIs
        /\ userProfiles[u].activeEMIs >= 0

\* C15 witness: a loan was added and then completed, and a further completeEMI
\* has just been refused
C15_Witness ==
    \E u \in Users :
        /\ userProfiles[u].totalEMIs = 1
        /\ userProfiles[u].completedEMIs = 1
        /\ userProfiles[u].activeEMIs = 0
        /\ last = Call("completeEMI", u, 0, FALSE)
        /\ Agent \in authorizedContracts

\* C16: createEMIPlan with a valid request, by an authorized merchant, for a
\* user without a profile (the manager and UserProfile being authorized in
\* UserProfile) succeeds, and afterwards the user's profile exists with
\* creditScore 650, onTimePaymentRate 10000, totalEMIs 1 and activeEMIs 1.
C16_LazyProfile ==
    [][\A u \in Users :
            (/\ last'.op = "createEMIPlan" /\ last'.target = u /\ last'.arg = 1
             /\ getUserProfile(u).joinDate = 0
             /\ Merchant \in authorizedMerchants
             /\ {ManagerAddr, ProfileAddr} \subseteq authorizedContracts)
            => /\ last'.ok
               /\ userProfiles'[u].joinDate # 0
               /\ userProfiles'[u].creditScore = 650
               /\ userProfiles'[u].onTimePaymentRate = 10000
               /\ userProfiles'[u].totalEMIs = 1
               /\ userProfiles'[u].activeEMIs = 1]_vars

\* C17: verifyEligibility returns isEligible = FALSE, maxAmount = 0 and the
\* reason "Credit score too low" for every profile with creditScore < 600,
\* whatever its activeEMIs, never that reason for a creditScore >= 600, and a
\* call of it changes no state.
C17_ScoreTooLow ==
    /\ [](\A u \in Users :
            LET r == verifyEligibility(getUserProfile(u))
            IN  IF getUserProfile(u).creditScore < 600
                THEN /\ r.isEligible = FALSE
                     /\ r.maxAmount = 0
                     /\ r.reason = "Credit score too low"
                ELSE r.reason # "Credit score too low")
    /\ [][last'.op = "verifyEligibility"
            => (UNCHANGED chain /\ last'.ok
                /\ last'.arg = verifyEligibility(getUserProfile(last'.target)).maxAmount)]_vars

\* C17 witness: verifyEligibility has just been called for a user with a
\* profile, an active loan and a creditScore of 590
C17_Witness ==
    \E u \in Users :
        /\ last = Call("verifyEligibility", u, 0, TRUE)
        /\ userProfiles[u].joinDate # 0
        /\ userProfiles[u].activeEMIs > 0
        /\ userProfiles[u].creditScore = 590

\* C18: no user's activeEMIs exceeds 5.
C18_AtMostFiveActive ==
    \A u \in Users : userProfiles[u].activeEMIs <= 5

\* C19: every successful installment or early payment is credited back to the
\* pool's accounting: the amount the pool received (up to lockedLiquidity)
\* moves from lockedLiquidity to availableLiquidity in the same operation.
C19_RepaymentCredited ==
    [][\A l \in LoanIds :
            (/\ last'.op \in {"processInstallmentPayment", "makeEarlyPayment"}
             /\ last'.target = l /\ last'.ok)
            => LET paid == balance'[PoolAddr] - balance[PoolAddr]
                   moved == IF paid > poolStats.lockedLiquidity
                            THEN poolStats.lockedLiquidity ELSE paid
               IN  /\ poolStats'.lockedLiquidity = poolStats.lockedLiquidity - moved
                   /\ poolStats'.availableLiquidity = poolStats.availableLiquidity + moved]_vars

\* the operations that move tokens
TransferOps == {"processDeposit", "processInstallmentPayment", "makeEarlyPayment",
                "addLiquidity", "removeLiquidity", "claimInterest", "transferToMerchant"}

C21_DepositRefund ==
    /\ [](\A l \in LoanIds : balance[l] \in {0, loans[l].depositAmount})
    /\ [][\A l \in LoanIds :
            /\ balance'[l] < balance[l]
                => /\ loans[l].status = "Active" /\ loans'[l].status = "Completed"
                   /\ balance[l] - balance'[l] = loans[l].depositAmount
            /\ (loans[l].status # "Completed" /\ loans'[l].status = "Completed")
                => /\ loans[l].status = "Active"
                   /\ balance'[l] = balance[l] - loans[l].depositAmount
                   /\ balance'[loans[l].user] + (balance'[PoolAddr] - balance[PoolAddr])
                        = balance[loans[l].user] + loans[l].depositAmount
            /\ loans[l].status = "Completed" => balance'[l] = balance[l]]_vars

\* C21 witness: the last installment has just been paid and the contract,
\* which held a non-zero deposit, holds nothing
C21_Witness ==
    \E l \in Deployed :
        /\ last.op = "processInstallmentPayment" /\ last.target = l /\ last.ok
        /\ loans[l].status = "Completed"
        /\ loans[l].depositAmount > 0
        /\ balance[l] = 0

\* C22: addLiquidity with amount < MIN_LIQUIDITY fails and leaves the pool's
\* counters and the provider's record unchanged; with amount >= MIN_LIQUIDITY,
\* the provider holding the tokens, it succeeds and increases the provider's
\* amount, totalLiquidity and availableLiquidity by exactly amount.
C22_AddLiquidityMinimum ==
    [][\A p \in Providers :
            (last'.op = "addLiquidity" /\ last'.target = p)
            => /\ last'.arg < MIN_LIQUIDITY
                    => /\ ~last'.ok
                       /\ poolStats' = poolStats
                       /\ liquidityProviders' = liquidityProviders
               /\ (last'.arg >= MIN_LIQUIDITY /\ balance[p] >= last'.arg) => last'.ok
               /\ last'.ok
                    => /\ liquidityProviders'[p].amount
                            = liquidityProviders[p].amount + last'.arg
                       /\ poolStats'.totalLiquidity = poolStats.totalLiquidity + last'.arg
                       /\ poolStats'.availableLiquidity
                            = poolStats.availableLiquidity + last'.arg
                       /\ poolStats'.lockedLiquidity = poolStats.lockedLiquidity]_vars

\* C22 witness: an addLiquidity of one unit less than the minimum, by a
\* provider that holds the tokens, has just failed
C22_Witness ==
    \E p \in Providers :
        /\ last = Call("addLiquidity", p, MIN_LIQUIDITY - 1, FALSE)
        /\ balance[p] >= MIN_LIQUIDITY - 1

\* C23: with two loans of one borrower operated in any interleaving, every
\* call changes the borrower's profile by exactly its own credit update applied
\* to the profile as the calls before it (on either loan) left it: a failed call
\* and a deposit change nothing, an installment adds 2 and an early payment 5
\* to the score (within [300, 850], a score of 850 being left alone), a default
\* takes 100 off the score and moves one loan from active to defaulted.  So the
\* final score and counters are those of the same updates applied one after
\* the other.
C23_NoLostUpdate ==
    [][\A l \in BothLoans :
            (/\ last'.target = l
             /\ last'.op \in {"processDeposit", "processInstallmentPayment",
                              "makeEarlyPayment", "markAsDefaulted"})
            => LET old == userProfiles[loans[l].user]
                   new == userProfiles'[loans[l].user]
                   clamp(x) == IF x > 850 THEN 850 ELSE IF x < 300 THEN 300 ELSE x
                   raised(d) == IF old.creditScore < 850
                                THEN [old EXCEPT !.creditScore = clamp(old.creditScore + d)]
                                ELSE old
               IN  IF ~last'.ok \/ last'.op = "processDeposit" THEN new = old
                   ELSE IF last'.op = "processInstallmentPayment" THEN new = raised(2)
                   ELSE IF last'.op = "makeEarlyPayment" THEN new = raised(5)
                   ELSE new = [old EXCEPT
                                !.creditScore = clamp(IF old.creditScore > 100
                                                      THEN old.creditScore - 100 ELSE 300),
                                !.activeEMIs = @ - 1,
                                !.defaultedEMIs = @ + 1]]_vars

\* C23 witness: both loans of the borrower have an installment paid, the last
\* call was a payment, and the score holds the updates of both loans
C23_Witness ==
    /\ loans["L1"].paymentsCompleted >= 1
    /\ loans["L2"].paymentsCompleted >= 1
    /\ loans["L1"].user = loans["L2"].user
    /\ last.op = "processInstallmentPayment" /\ last.ok
    /\ userProfiles[loans["L1"].user].joinDate # 0
    /\ userProfiles[loans["L1"].user].creditScore >= 654

(***************************************************************************)
(* C24: while a loan is paused, processDeposit, processInstallmentPayment   *)
(* and makeEarlyPayment on it fail and leave the state unchanged; pause and *)
(* unpause called by anyone but the loan's EMI manager fail, and a call of  *)
(* the manager that succeeds sets, respectively clears, the pause; on an    *)
(* unpaused loan the installment that is due is accepted again under its    *)
(* normal preconditions.                                                    *)
(***************************************************************************)
PausableOps == {"processDeposit", "processInstallmentPayment", "makeEarlyPayment"}

\* the preconditions of the next installment other than the pause
InstallmentDue(l, n) ==
    LET e == loans[l]
    IN  /\ e.depositPaid /\ e.status = "Active"
        /\ n = e.paymentsCompleted + 1 /\ n <= e.termMonths
        /\ e.installments[n].status = "Pending"
        /\ CanPay(balance, e.user, PaymentAmount(e.installments[n], now))
        /\ l \in authorizedContracts

C24_Pause ==
    [][\A l \in LoanIds :
          /\ (loans[l].paused /\ last'.target = l /\ last'.op \in PausableOps)
                => (~last'.ok /\ UNCHANGED chain)
          /\ (last'.target = l /\ last'.op \in {"pause", "unpause"}
                /\ last'.sender # loans[l].emiManager)
                => (~last'.ok /\ UNCHANGED chain)
          /\ (last'.target = l /\ last'.op = "pause" /\ last'.ok)
                => (~loans[l].paused /\ loans'[l] = [loans[l] EXCEPT !.paused = TRUE])
          /\ (last'.target = l /\ last'.op = "unpause" /\ last'.ok)
                => (loans[l].paused /\ loans'[l] = [loans[l] EXCEPT !.paused = FALSE])
          /\ (~loans[l].paused /\ last'.target = l
                /\ last'.op = "processInstallmentPayment"
                /\ InstallmentDue(l, last'.arg))
                => last'.ok]_vars

\* an installment that is due and affordable has just been refused on a
\* paused loan
C24_Witness ==
    \E l \in LoanIds :
       /\ loans[l].paused
       /\ InstallmentDue(l, loans[l].paymentsCompleted + 1)
       /\ last = Call("processInstallmentPayment", l, loans[l].paymentsCompleted + 1, FALSE)

\* C25: a successful makeEarlyPayment(amount) lowers remainingAmount by
\* exactly amount, sets every unpaid installment (paymentsCompleted+1 ..
\* termMonths) to floor(newRemainingAmount / (termMonths - paymentsCompleted))
\* where newRemainingAmount is the remaining amount after the payment, and
\* leaves the installments already paid unchanged.
C25_Reamortised ==
    [][\A l \in LoanIds :
            (last'.op = "makeEarlyPayment" /\ last'.target = l /\ last'.ok)
            => LET e == loans[l]
                   newRemainingAmount == loans'[l].remainingAmount
               IN  /\ newRemainingAmount = e.remainingAmount - last'.arg
                   /\ \A i \in 1..Len(e.installments) :
                         IF i > e.paymentsCompleted /\ i <= e.termMonths
                         THEN loans'[l].installments[i].amount
                                = newRemainingAmount \div (e.termMonths - e.paymentsCompleted)
                         ELSE loans'[l].installments[i] = e.installments[i]]_vars

\* C26: on an Active, deposit-paid, unpaused loan whose borrower can pay,
\* makeEarlyPayment(amount) succeeds for every 0 < amount <= remainingAmount,
\* and fails, leaving all state unchanged, exactly when amount = 0 or
\* amount > remainingAmount.
C26_EarlyPaymentAccepted ==
    [][\A l \in LoanIds :
            (/\ last'.op = "makeEarlyPayment" /\ last'.target = l
             /\ loans[l].status = "Active" /\ loans[l].depositPaid /\ ~loans[l].paused
             /\ l \in authorizedContracts
             /\ CanPay(balance, loans[l].user, last'.arg))
            => /\ last'.ok <=> (0 < last'.arg /\ last'.arg <= loans[l].remainingAmount)
               /\ ~last'.ok => UNCHANGED chain]_vars

\* C27: receiveEMIPayment(amount) by an authorized contract always succeeds
\* and moves min(amount, lockedLiquidity) from lockedLiquidity to
\* availableLiquidity: a repayment larger than lockedLiquidity leaves
\* lockedLiquidity at 0 instead of failing.
C27_RepaymentClamped ==
    [][(last'.op = "receiveEMIPayment" /\ last'.target \in authorizedEMIContracts)
         => LET moved == IF last'.arg > poolStats.lockedLiquidity
                         THEN poolStats.lockedLiquidity ELSE last'.arg
            IN  /\ last'.ok
                /\ poolStats'.lockedLiquidity = poolStats.lockedLiquidity - moved
                /\ poolStats'.availableLiquidity = poolStats.availableLiquidity + moved]_vars

\* C28: calculatePendingInterest(provider) is amount * APY / 10000 * elapsed /
\* year with the utilization-dependent APY of calculateAPY (800 plus up to 200
\* basis points, growing with lockedLiquidity / totalLiquidity), and 0 for an
\* inactive provider or a zero stake.
C28_PendingInterestAtAPY ==
    \A p \in Providers :
       LET pr == liquidityProviders[p]
       IN  calculatePendingInterest(pr, now)
             = IF ~pr.isActive \/ pr.amount = 0
               THEN 0
               ELSE (((pr.amount * calculateAPY(poolStats)) \div 10000)
                        * (now - pr.timestamp)) \div YearLength

(***************************************************************************)
(* C29: calculateInterestRate(score, termMonths) changes no state and       *)
(* returns 1200 adjusted by exactly one score factor (score >= 750: x90/100;*)
(* 700..749: x95/100; 650..699: unchanged; below 650: x110/100) and then    *)
(* exactly one term factor (term > 12: x105/100; term <= 6: x95/100;        *)
(* otherwise unchanged), each step truncating; for a fixed term the rate    *)
(* never increases as the score increases.                                  *)
(***************************************************************************)
ScoreFactor(score) ==
    IF score >= 750 THEN 90
    ELSE IF score >= 700 /\ score <= 749 THEN 95
    ELSE IF score >= 650 /\ score <= 699 THEN 100
    ELSE 110

TermFactor(term) ==
    IF term > 12 THEN 105 ELSE IF term <= 6 THEN 95 ELSE 100

C29_InterestRate ==
    [][last'.op = "calculateInterestRate"
         => LET score == last'.args[1]
                term == last'.args[2]
            IN  /\ last'.ok /\ UNCHANGED chain
                /\ last'.arg = (((1200 * ScoreFactor(score)) \div 100) * TermFactor(term)) \div 100
                /\ \A higher \in RateScores :
                      higher >= score => calculateInterestRate(higher, term) <= last'.arg]_vars

\* the rate for score 750 and a 13-month term: both adjustments applied
C29_Witness ==
    /\ last.op = "calculateInterestRate"
    /\ last.args = <<750, 13>>
    /\ last.arg = 1134

(***************************************************************************)
(* C30: markAsDefaulted on an Active loan fails for every caller but the    *)
(* loan's manager; called by the manager with an active loan recorded for   *)
(* the borrower it sets status to Defaulted and, in the same call,          *)
(* creditScore to max(300, creditScore - 100), activeEMIs one lower and     *)
(* defaultedEMIs one higher; when the profile update fails (no active loan  *)
(* recorded) the call fails and the status is unchanged as well.  The score  *)
(* rule is also applied to the same profile at scores down to the floor.    *)
(***************************************************************************)
C30_Default ==
    [][\A l \in LoanIds :
          (last'.op = "markAsDefaulted" /\ last'.target = l /\ loans[l].status = "Active")
          => LET old == userProfiles[loans[l].user]
                 new == userProfiles'[loans[l].user]
                 lowered == IF old.creditScore - 100 > 300 THEN old.creditScore - 100 ELSE 300
             IN  /\ last'.ok <=> /\ last'.sender = loans[l].emiManager
                                 /\ old.activeEMIs > 0
                                 /\ l \in authorizedContracts
                 /\ last'.ok => /\ loans'[l] = [loans[l] EXCEPT !.status = "Defaulted"]
                                /\ new = [old EXCEPT !.creditScore = lowered,
                                                     !.activeEMIs = @ - 1,
                                                     !.defaultedEMIs = @ + 1]
                 /\ last'.ok =>
                       \A score \in {300, 350, 399, 400, 401, 650, 850} :
                          recordDefaultProfile([old EXCEPT !.creditScore = score]).creditScore
                            = IF score - 100 > 300 THEN score - 100 ELSE 300
                 /\ ~last'.ok => UNCHANGED chain]_vars

\* the manager has defaulted a loan that was Active (deposit and an
\* installment paid, installments outstanding) and the profile shows it
C30_Witness ==
    \E l \in LoanIds :
       /\ last = CallFrom(loans[l].emiManager, "markAsDefaulted", l, 0, TRUE)
       /\ loans[l].status = "Defaulted"
       /\ loans[l].depositPaid
       /\ loans[l].paymentsCompleted >= 1
       /\ loans[l].paymentsCompleted < loans[l].termMonths
       /\ userProfiles[loans[l].user].defaultedEMIs = 1
       /\ userProfiles[loans[l].user].creditScore = 552

DepositsRecorded(e) ==
    Cardinality({i \in 1..Len(e.paymentHistory) : e.paymentHistory[i].paymentType = "Deposit"})

C32_DepositOnce ==
    [][/\ \A l \in BothLoans :
            /\ (last'.op = "processDeposit" /\ last'.target = l /\ last'.ok)
                  => /\ loans[l].status = "Created" /\ ~loans[l].depositPaid
                     /\ loans'[l].status = "Active" /\ loans'[l].depositPaid
            /\ (last'.op = "processDeposit" /\ last'.target = l /\ loans[l].depositPaid)
                  => (~last'.ok /\ UNCHANGED chain)
            /\ loans[l].depositPaid => loans'[l].depositPaid
            /\ DepositsRecorded(loans'[l]) = IF loans'[l].depositPaid THEN 1 ELSE 0
       /\ balance'[Merchant]
            = SumOver([l \in BothLoans |-> [amount |-> loans'[l].totalAmount]],
                      {l \in BothLoans : loans'[l].depositPaid})]_vars

\* a second processDeposit on a loan whose deposit is paid has just been
\* refused, although the borrower and the pool could pay it again
C32_Witness ==
    \E l \in BothLoans :
       /\ last = Call("processDeposit", l, loans[l].depositAmount, FALSE)
       /\ loans[l].depositPaid
       /\ DepositsRecorded(loans[l]) = 1
       /\ CanPay(balance, loans[l].user, loans[l].depositAmount)
       /\ poolStats.availableLiquidity >= loans[l].totalAmount
       /\ balance[PoolAddr] >= loans[l].totalAmount
       /\ l \in authorizedContracts /\ l \in authorizedEMIContracts

(***************************************************************************)
(* EMIPlatform                                                              *)
(***************************************************************************)
\* the loans createLoan has made
CreatedLoans == 1..nextLoanId

\* C33: every loan made by createLoan can be repaid by `installments`
\* payInstallment calls made when due: on an active loan with installments
\* left, at or after nextDue, with a buyer who holds the amount, payInstallment
\* succeeds and pays floor(totalAmount / installments), or the remainder when
\* it is the last one, after which paidAmount = totalAmount and the loan is
\* inactive.
C33_RepayableByInstallments ==
    [][\A id \in CreatedLoans :
          LET L == platformLoans[id]
              nominal == L.totalAmount \div L.installments
              amount == IF L.installmentsPaid + 1 = L.installments
                        THEN L.totalAmount - nominal * (L.installments - 1)
                        ELSE nominal
          IN  (/\ last'.op = "payInstallment" /\ last'.arg = id
               /\ L.active /\ L.installmentsPaid < L.installments
               /\ now >= L.nextDue
               /\ CanPay(tokenBalances[L.token], L.buyer, amount))
              => /\ last'.ok
                 /\ platformLoans'[id].paidAmount = L.paidAmount + amount
                 /\ platformLoans'[id].installmentsPaid = L.installmentsPaid + 1
                 /\ platformLoans'[id].installmentsPaid = L.installments
                       => /\ platformLoans'[id].paidAmount = L.totalAmount
                          /\ ~platformLoans'[id].active]_vars

(***************************************************************************)
(* C39: for every loan of EMIPlatform, under any sequence of payInstallment *)
(* and payNow: paidAmount <= totalAmount, installmentsPaid <= installments  *)
(* (within uint8), the loan is active exactly when paidAmount < totalAmount,*)
(* and on an inactive loan payInstallment and payNow fail and change        *)
(* nothing.                                                                 *)
(***************************************************************************)
C39_PlatformLoanBounds ==
    [][/\ \A id \in 1..nextLoanId' :
            LET L == platformLoans'[id]
            IN  /\ L.paidAmount <= L.totalAmount
                /\ L.installmentsPaid <= L.installments
                /\ L.installmentsPaid <= MaxUint8
                /\ L.active <=> L.paidAmount < L.totalAmount
       /\ \A id \in CreatedLoans :
            (last'.op \in {"payInstallment", "payNow"} /\ last'.arg = id
                /\ ~platformLoans[id].active)
            => (~last'.ok /\ UNCHANGED chain)]_vars

\* a loan of 10 in three installments is paid by its third installment, the
\* 4 that remained, and a further payInstallment on it has just been refused
C39_Witness ==
    \E id \in CreatedLoans :
       /\ platformLoans[id].totalAmount = 10
       /\ platformLoans[id].installments = 3
       /\ platformLoans[id].installmentsPaid = 3
       /\ platformLoans[id].paidAmount = 10
       /\ platformLoans[id].nextDue = platformLoans[id].createdAt + 3 * INTERVAL
       /\ ~platformLoans[id].active
       /\ last = Call("payInstallment", PlatformAddr, id, FALSE)

RECURSIVE SumOf(_, _)
\* the sum of f[x] over the x in S
SumOf(f, S) ==
    IF S = {} THEN 0
    ELSE LET x == CHOOSE y \in S : TRUE
         IN  f[x] + SumOf(f, S \ {x})

\* what the loans in a token have been paid, what is recorded for the sellers
\* in it, and what the sellers have withdrawn of it
PaidIn(token, ls) ==
    SumOf([id \in PlatformLoanIds |-> ls[id].paidAmount],
          {id \in PlatformLoanIds : ls[id].token = token})

RecordedIn(token, sb) == SumOf([a \in Sellers |-> sb[a][token]], Sellers)

WithdrawnIn(token, w) == SumOf([a \in Sellers |-> w[a][token]], Sellers)

(***************************************************************************)
(* C40: EMIPlatform conserves value: for each token the paidAmount of all   *)
(* loans equals the recorded seller balances plus what sellers have         *)
(* withdrawn; a successful sellerWithdraw transfers exactly the caller's    *)
(* recorded balance, sets it to 0 and leaves every other seller balance and *)
(* every loan unchanged.                                                    *)
(***************************************************************************)
C40_PlatformConserves ==
    [][/\ \A t \in Tokens :
            PaidIn(t, platformLoans')
              = RecordedIn(t, sellerBalances') + WithdrawnIn(t, withdrawn')
       /\ \A a \in Sellers, t \in Tokens :
            (last'.op = "sellerWithdraw" /\ last'.sender = a /\ last'.target = t /\ last'.ok)
            => /\ last'.arg = sellerBalances[a][t]
               /\ tokenBalances'[t][a] = tokenBalances[t][a] + sellerBalances[a][t]
               /\ tokenBalances'[t][PlatformAddr]
                    = tokenBalances[t][PlatformAddr] - sellerBalances[a][t]
               /\ sellerBalances'[a][t] = 0
               /\ \A b \in Sellers, u \in Tokens :
                     (b # a \/ u # t) => sellerBalances'[b][u] = sellerBalances[b][u]
               /\ platformLoans' = platformLoans]_vars

\* seller m1 has withdrawn its PYUSD while m2 still has USDT recorded
C40_Witness ==
    /\ last.op = "sellerWithdraw" /\ last.ok
    /\ last.sender = "m1" /\ last.target = "PYUSD" /\ last.arg > 0
    /\ withdrawn["m1"]["PYUSD"] = last.arg
    /\ sellerBalances["m1"]["PYUSD"] = 0
    /\ sellerBalances["m2"]["USDT"] > 0

\* C34: the pool holds at least availableLiquidity in tokens in every state,
\* so a removeLiquidity or transferToMerchant that passes its checks of the
\* provider, the caller and availableLiquidity is never refused for lack of
\* tokens.
C34_PoolSolvent ==
    [][/\ balance'[PoolAddr] >= poolStats'.availableLiquidity
       /\ (/\ last'.op = "transferToMerchant"
           /\ last'.target \in authorizedEMIContracts
           /\ poolStats.availableLiquidity >= last'.arg) => last'.ok
       /\ \A p \in Providers :
            (/\ last'.op = "removeLiquidity" /\ last'.target = p
             /\ liquidityProviders[p].isActive
             /\ liquidityProviders[p].amount >= last'.arg
             /\ poolStats.availableLiquidity >= last'.arg) => last'.ok]_vars

\* C35: a loan is counted as defaulted at most once: markAsDefaulted on a loan
\* that is already Defaulted, or Completed, or still Created, leaves the
\* borrower's creditScore, activeEMIs and defaultedEMIs unchanged.
C35_DefaultedOnce ==
    [][\A l \in BothLoans :
          (/\ last'.op = "markAsDefaulted" /\ last'.target = l
           /\ loans[l].deployed
           /\ loans[l].status \in {"Defaulted", "Completed", "Created"})
          => LET old == userProfiles[loans[l].user]
                 new == userProfiles'[loans[l].user]
             IN  /\ new.creditScore = old.creditScore
                 /\ new.activeEMIs = old.activeEMIs
                 /\ new.defaultedEMIs = old.defaultedEMIs]_vars

\* the amounts of the Pending installments of loan e
PendingSum(e) ==
    SumOver(e.installments,
            {i \in 1..Len(e.installments) : e.installments[i].status = "Pending"})

\* C36: in every state of a loan remainingAmount is at least the sum of the
\* amounts of its Pending installments, also after early payments and their
\* re-amortisation, so remainingAmount -= installment.amount never underflows:
\* the installment that is due is never refused for that reason.
C36_RemainingCoversPending ==
    \A l \in Deployed :
       /\ loans[l].remainingAmount >= PendingSum(loans[l])
       /\ loans[l].paymentsCompleted < loans[l].termMonths
             => loans[l].remainingAmount
                  >= loans[l].installments[loans[l].paymentsCompleted + 1].amount

\* C36 witness: after an early payment and an installment the amount left
\* exceeds what the Pending installments sum to
C36_Witness ==
    \E l \in Deployed :
       /\ EarlyPayments(loans[l]) >= 1
       /\ loans[l].paymentsCompleted >= 1
       /\ loans[l].paymentsCompleted < loans[l].termMonths
       /\ PendingSum(loans[l]) > 0
       /\ loans[l].remainingAmount > PendingSum(loans[l])

(***************************************************************************)
(* C37: in every state of a loan, installments 1..paymentsCompleted are     *)
(* Paid with a non-zero paidDate, installments paymentsCompleted+1 ..       *)
(* termMonths are Pending, none is Overdue or Waived, paymentsCompleted <=  *)
(* termMonths, and while installments are left nextPaymentDate is the due   *)
(* date of installment paymentsCompleted+1.                                 *)
(***************************************************************************)
C37_Schedule ==
    \A l \in Deployed :
       LET e == loans[l]
       IN  /\ e.paymentsCompleted <= e.termMonths
           /\ Len(e.installments) = e.termMonths
           /\ \A i \in 1..Len(e.installments) :
                 IF i <= e.paymentsCompleted
                 THEN e.installments[i].status = "Paid" /\ e.installments[i].paidDate # 0
                 ELSE e.installments[i].status = "Pending"
           /\ e.paymentsCompleted < e.termMonths
                 => e.nextPaymentDate = e.installments[e.paymentsCompleted + 1].dueDate

\* C37 witness: the second of three installments has just been paid
C37_Witness ==
    \E l \in Deployed :
       /\ last = Call("processInstallmentPayment", l, 2, TRUE)
       /\ loans[l].termMonths = 3
       /\ loans[l].paymentsCompleted = 2
       /\ loans[l].installments[2].status = "Paid"
       /\ loans[l].installments[3].status = "Pending"
       /\ loans[l].nextPaymentDate = loans[l].installments[3].dueDate

\* what the providers have in the pool
ProviderSum == SumOver(liquidityProviders, PoolProviders)

\* C38: in every reachable state of the pool the amounts of all the providers
\* add up to totalLiquidity, and a provider is active exactly when its amount
\* is greater than 0, whatever the order of addLiquidity, removeLiquidity
\* (of 0 as well) and claimInterest.
C38_ProviderTotals ==
    /\ ProviderSum = poolStats.totalLiquidity
    /\ \A p \in PoolProviders :
            liquidityProviders[p].isActive <=> liquidityProviders[p].amount > 0

\* C38 witness: one provider has just withdrawn all it had and is inactive
\* while another, after a partial withdrawal, still has a part in the pool
C38_Witness ==
    \E p, q \in PoolProviders :
        /\ p # q
        /\ last.op = "removeLiquidity" /\ last.ok /\ last.target = p
        /\ last.arg = MIN_LIQUIDITY
        /\ ~liquidityProviders[p].isActive
        /\ liquidityProviders[q].amount \in 1..(MIN_LIQUIDITY - 1)
        /\ poolStats.totalLiquidity = liquidityProviders[q].amount

====
